---- MODULE Spec2Model ----
(***************************************************************************)
(* A model of the hft-lab NBBO research pipeline:                          *)
(*   - nbbo/time_utils.hpp          timestamp helpers (inc_ms, ...)        *)
(*   - nbbo_pipeline.cpp            stage A aggregator, event->clock fill, *)
(*                                  parallel tail quantiles                *)
(*   - pnl_aggregator.cpp           daily PnL aggregation                  *)
(*   - the spike denoiser           per-day mid filter                     *)
(*                                                                         *)
(* Representation choices.                                                 *)
(*   A timestamp YYYYMMDDHHMMSSmmm (uint64_t) does not fit the integers of *)
(*   the model checker, so ts is held as the pair                          *)
(*       [day |-> ts / 10^9, tod |-> ts % 10^9]                            *)
(*   and every helper is written on that pair, digit for digit.            *)
(*   The prices of stage A are floats, held as their bit patterns: a quote *)
(*   price is what strtof gives for the text of the line, and mid and      *)
(*   spread are computed in float arithmetic, rounding included.           *)
(*   log(a/b) is held symbolically as [fin, num, den]; NaN has fin=FALSE.  *)
(***************************************************************************)
EXTENDS Integers, Sequences, FiniteSets, TLC

VARIABLES
  \* ---- time_utils: repeated inc_ms from a start timestamp
  incStart, incCur, incK,
  \* ---- stage A: one input stream run through process_file_to_msbin twice
  \*      (event settings, clock+ffill settings) and through convert_one
  maxFfill, evRun, ckRun, inTs, nLines, pcA, fallbackOut,
  \* ---- tail_quantiles_parallel
  tq,
  \* ---- PnLAggregator
  pnl,
  \* ---- spike denoiser
  den,
  \* ---- EventTableBuilder
  evb,
  \* ---- HistogramBuilder / HistogramModel
  hist,
  \* ---- Backtester
  bt,
  \* ---- HistogramModel bin lookups
  lookup,
  \* ---- stage A: the accepted quotes read so far, bucket by bucket
  inAcc,
  \* ---- the per-year parquet writer
  pq,
  \* ---- the thread pool of a parallel stage
  pool,
  \* ---- the session filter on one quote time
  rth

incVars == <<incStart, incCur, incK>>
aggVars == <<maxFfill, evRun, ckRun, inTs, nLines, pcA, fallbackOut>>
vars == <<incVars, aggVars, tq, pnl, den, evb, hist, bt, lookup, inAcc, pq, pool, rth>>

(***************************************************************************)
(* Bounds of the model                                                     *)
(***************************************************************************)
MaxIncSteps == 4       \* how many times inc_ms is applied in a row
MaxLines == 4          \* quotes read by one stage-A run (grid specification)
MaxPxLines == 3        \* quotes read by one stage-A run (price specification)
MaxBkLines == 3        \* quotes read by one stage-A run (bucket specification)
MaxGlLines == 3        \* quotes read by one stage-A run (glitch specification)
MaxFfillGap == 2       \* largest max_ffill_gap_ms setting explored
MaxPx == 3             \* quote prices are 0 (invalid) or k cents, k in 1..MaxPx
MaxSz == 2             \* quote sizes are 0..MaxSz

Min(a, b) == IF a < b THEN a ELSE b
Max(a, b) == IF a > b THEN a ELSE b
Abs(x) == IF x < 0 THEN 0 - x ELSE x

(***************************************************************************)
(* nbbo/time_utils.hpp                                                     *)
(***************************************************************************)
E9 == 1000000000
E8 == 100000000
E7 == 10000000
E5 == 100000
E3 == 1000

Ts(d, t) == [day |-> d, tod |-> t]
TsZero == Ts(0, 0)

\* ts / 1000000000
ymd(ts) == ts.day
day_from_ts(ts) == ts.day
\* (ts / 10000000) % 100, and so on
hh(ts) == (ts.tod \div E7) % 100
mm(ts) == (ts.tod \div E5) % 100
ss(ts) == (ts.tod \div E3) % 100
mmm(ts) == ts.tod % E3
same_day(a, b) == ymd(a) = ymd(b)
ms_since_midnight(ts) == ((hh(ts) * 60 + mm(ts)) * 60 + ss(ts)) * 1000 + mmm(ts)
\* ts / 10^13
year_from_ts(ts) == ts.day \div 10000

\* The timestamp the stage-A parser builds from date, h, m, s, msec.
MakeTs(d, h, m, s, ms) == Ts(d, h * E7 + m * E5 + s * E3 + ms)

\* inc_ms as written: Y = ts/10^12, Mon = (ts/10^10)%100, D = (ts/10^8)%100,
\* result = Y*10^12 + Mon*10^10 + D*10^8 + H*10^7 + M*10^5 + S*10^3 + MS.
\* On the pair: ts/10^12 = day/1000, (ts/10^10)%100 = (day/10)%100,
\* (ts/10^8)%100 = (day%10)*10 + tod/10^8.
inc_ms(ts) ==
  LET MS1 == mmm(ts) + 1
      c1  == MS1 = 1000
      MS  == IF c1 THEN 0 ELSE MS1
      S1  == IF c1 THEN ss(ts) + 1 ELSE ss(ts)
      c2  == c1 /\ S1 = 60
      S   == IF c2 THEN 0 ELSE S1
      M1  == IF c2 THEN mm(ts) + 1 ELSE mm(ts)
      c3  == c2 /\ M1 = 60
      M   == IF c3 THEN 0 ELSE M1
      H   == IF c3 THEN hh(ts) + 1 ELSE hh(ts)
      Y   == ts.day \div 1000
      Mon == (ts.day \div 10) % 100
      D   == (ts.day % 10) * 10 + ts.tod \div E8
      \* Y*10^12 + Mon*10^10 + (D/10)*10^9 is a multiple of 10^9
      hiDay == Y * 1000 + Mon * 10 + D \div 10
      low   == (D % 10) * E8 + H * E7 + M * E5 + S * E3 + MS
  IN Ts(hiDay + low \div E9, low % E9)

(***************************************************************************)
(* Specification SpecInc: inc_ms applied repeatedly, as the fill loops do  *)
(***************************************************************************)
\* calendar days of the inputs, YYYYMMDD
DayOf(i) == 20240101 + i
Day1 == DayOf(1)
Day2 == DayOf(2)

\* valid intraday timestamps of the trading session, hours 09 through 15
IncHours == 9..15
IncMinutes == {0, 30, 59}
IncSeconds == {0, 59}
IncMillis == {0, 1, 998, 999}
SessionTs ==
  { MakeTs(d, h, m, s, ms) : d \in {Day1}, h \in IncHours, m \in IncMinutes,
                             s \in IncSeconds, ms \in IncMillis }


\* one iteration of `t = nbbo::inc_ms(t)`
IncStep ==
  /\ incK < MaxIncSteps
  /\ incCur' = inc_ms(incCur)
  /\ incK' = incK + 1
  /\ UNCHANGED <<incStart, aggVars, tq, pnl, den, evb, hist, bt, lookup, inAcc, pq, pool, rth>>

(***************************************************************************)
(* float: the IEEE-754 binary32 values the prices of stage A are held in.  *)
(* A float is written as the integer of its bit pattern, negated for a     *)
(* negative value: 0 is 0.0f, 1065353216 is 1.0f.  This integer orders as  *)
(* the float does, so <, <=, = on floats are <, <=, = on the integers.     *)
(* The value of a float x >= 0 is FMant(x) * 2^FExp(x).                    *)
(***************************************************************************)
RECURSIVE Pow2(_)
Pow2(n) == IF n <= 0 THEN 1 ELSE 2 * Pow2(n - 1)
\* 2^23: the weight of the exponent field, and the hidden bit
FHidden == Pow2(23)
\* the number of binary digits of n >= 0
RECURSIVE BitLen(_)
BitLen(n) == IF n = 0 THEN 0 ELSE 1 + BitLen(n \div 2)
FMant(x) == IF x \div FHidden = 0 THEN x % FHidden ELSE FHidden + (x % FHidden)
FExp(x) == IF x \div FHidden = 0 THEN 0 - 149 ELSE (x \div FHidden) - 150

\* std::numeric_limits<float>::infinity()
FloatInf == 2139095040

\* n * 2^(-sh) without its fraction
FShift(n, sh) == IF sh > 0 THEN n \div Pow2(sh) ELSE n * Pow2(0 - sh)
\* whether n * 2^(-sh), followed by more digits when sticky, rounds up:
\* above the half, or at the half with FShift(n, sh) odd (ties to even)
FRoundsUp(n, sh, sticky) ==
  /\ sh > 0
  /\ \/ (n % Pow2(sh)) > Pow2(sh - 1)
     \/ (n % Pow2(sh)) = Pow2(sh - 1) /\ (sticky \/ (FShift(n, sh) % 2) = 1)
\* the float of mantissa q, 0 <= q <= 2^24, at exponent et >= -149
FPack(et, q) ==
  IF et + 149 + (q \div FHidden) >= 255 THEN FloatInf
  ELSE (et + 149) * FHidden + q
FRoundAt(n, et, sh, sticky) ==
  FPack(et, FShift(n, sh) + (IF FRoundsUp(n, sh, sticky) THEN 1 ELSE 0))
\* The float nearest to v, ties to even, for the exact value v >= 0 with
\* n * 2^e <= v < (n + 1) * 2^e, where v = n * 2^e unless sticky.  A sticky
\* n has more than 24 digits.  et is the exponent of the result's last place.
FRoundTo(n, e, et, sticky) == FRoundAt(n, et, et - e, sticky)
FRound(n, e, sticky) == FRoundTo(n, e, Max(e + BitLen(n) - 24, 0 - 149), sticky)

\* ma * 2^ea + mb * 2^eb rounded, d = ea - eb >= 0.  Six guard digits of
\* ma are kept when the exponents are further apart than that.
FAddAligned(ma, ea, mb, eb, d) ==
  IF d <= 6 THEN FRound(ma * Pow2(d) + mb, eb, FALSE)
  ELSE IF d >= 31 THEN FRound(ma * 64, ea - 6, mb # 0)
  ELSE FRound(ma * 64 + (mb \div Pow2(d - 6)), ea - 6, (mb % Pow2(d - 6)) # 0)
\* a + b in float arithmetic, a >= b >= 0 finite
FAddOrd(a, b) == FAddAligned(FMant(a), FExp(a), FMant(b), FExp(b), FExp(a) - FExp(b))
\* a + b in float arithmetic, a, b >= 0 finite
FAdd(a, b) == FAddOrd(Max(a, b), Min(a, b))

\* ma * 2^ea - mb * 2^eb rounded, for a difference > 0 and d = ea - eb >= 0
FSubAligned(ma, ea, mb, eb, d) ==
  IF d <= 6 THEN FRound(ma * Pow2(d) - mb, eb, FALSE)
  ELSE IF d >= 31 THEN FRound(ma * 64 - (IF mb # 0 THEN 1 ELSE 0), ea - 6, mb # 0)
  ELSE FRound(ma * 64 - (mb \div Pow2(d - 6))
                - (IF (mb % Pow2(d - 6)) # 0 THEN 1 ELSE 0),
              ea - 6, (mb % Pow2(d - 6)) # 0)
\* a - b in float arithmetic, a > b >= 0 finite
FSubOrd(a, b) == FSubAligned(FMant(a), FExp(a), FMant(b), FExp(b), FExp(a) - FExp(b))
\* a - b in float arithmetic, a, b >= 0 finite
FSub(a, b) ==
  IF a = b THEN 0 ELSE IF a > b THEN FSubOrd(a, b) ELSE 0 - FSubOrd(b, a)

\* 0.5f * a, a >= 0 finite
FHalf(a) == FRound(FMant(a), FExp(a) - 1, FALSE)

\* the exponent k >= 0 at which cents * 2^k / 100 has 24 digits
RECURSIVE CentShift(_, _)
CentShift(cents, k) ==
  IF cents * Pow2(k) >= 100 * FHidden THEN k ELSE CentShift(cents, k + 1)
\* parse_float on the text of a price of cents/100 dollars (two decimals, as
\* the prices of the data): strtof gives the float nearest to the decimal
\* value.  For 0 <= cents < 100 * 2^24.
parse_float(cents) ==
  IF cents <= 0 THEN 0
  ELSE LET k == CentShift(cents, 0)
           n == cents * Pow2(k)
           q0 == n \div 100
           r == n % 100
           q == IF 2 * r > 100 \/ (2 * r = 100 /\ (q0 % 2) = 1) THEN q0 + 1 ELSE q0
       IN (149 - k) * FHidden + q

(***************************************************************************)
(* nbbo_pipeline.cpp: rows, log returns, the per-ms bucket                 *)
(***************************************************************************)
\* std::numeric_limits<float>::quiet_NaN()
NaN == [fin |-> FALSE, num |-> 0, den |-> 0]
\* the literal 0.0f
ZeroLr == [fin |-> TRUE, num |-> 1, den |-> 1]
\* std::log(a / b) for floats a, b > 0.  The float quotient a / b is 1.0f only
\* when a = b (floats that differ are at least one part in 2^24 apart), and
\* log(1.0f) is 0.0f; the log of any other quotient is not 0 and has the sign
\* of a - b, and is kept as the pair it was computed from.
Log(a, b) == IF a = b THEN ZeroLr ELSE [fin |-> TRUE, num |-> a, den |-> b]
isfinite(lr) == lr.fin
\* sign of a finite log return: log(a/b) < 0, = 0, > 0
LrSign(lr) == IF lr.num > lr.den THEN 1 ELSE IF lr.num < lr.den THEN 0 - 1 ELSE 0

Row0 == [ts |-> TsZero, mid |-> 0, logret |-> NaN, bidSize |-> 0, askSize |-> 0,
         spread |-> 0, bid |-> 0, ask |-> 0]

\* NBBOBucket::reset
NBBOBucket_reset(t) ==
  [ms |-> t, bestBid |-> 0, bestAsk |-> FloatInf, bidSz |-> 0, askSz |-> 0,
   any |-> FALSE]

\* the glitch category NBBOBucket::upd bumps for q, "" when it bumps none
NBBOBucket_upd_glitch(q) ==
  IF q.bid <= 0 \/ q.ask <= 0 THEN "nonpos_price"
  ELSE IF q.ask <= q.bid THEN "locked_crossed"
  ELSE ""

\* NBBOBucket::upd taking the size of a quote that ties the best price
NBBOBucket_upd_TieReplaces(b, q) ==
  IF NBBOBucket_upd_glitch(q) # "" THEN b
  ELSE LET b1 == IF q.bid >= b.bestBid
                 THEN [b EXCEPT !.bestBid = q.bid, !.bidSz = q.bidSize, !.any = TRUE]
                 ELSE b
       IN IF q.ask <= b1.bestAsk
          THEN [b1 EXCEPT !.bestAsk = q.ask, !.askSz = q.askSize, !.any = TRUE]
          ELSE b1

\* NBBOBucket::upd
NBBOBucket_upd(b, q) ==
  IF NBBOBucket_upd_glitch(q) # "" THEN b
  ELSE LET b1 == IF q.bid > b.bestBid
                 THEN [b EXCEPT !.bestBid = q.bid, !.bidSz = q.bidSize, !.any = TRUE]
                 ELSE b
       IN IF q.ask < b1.bestAsk
          THEN [b1 EXCEPT !.bestAsk = q.ask, !.askSz = q.askSize, !.any = TRUE]
          ELSE b1

\* NBBOBucket::out leaving the log return unset
NBBOBucket_out_NoLr(b, prev_mid, set_lr) ==
  LET mid == FHalf(FAdd(b.bestBid, b.bestAsk))
  IN [ts |-> b.ms, bid |-> b.bestBid, ask |-> b.bestAsk,
      bidSize |-> b.bidSz, askSize |-> b.askSz,
      spread |-> FSub(b.bestAsk, b.bestBid), mid |-> mid,
      logret |-> NaN]

\* NBBOBucket::out, the Row it fills when it returns true (any = TRUE)
NBBOBucket_out(b, prev_mid, set_lr) ==
  LET mid == FHalf(FAdd(b.bestBid, b.bestAsk))
  IN [ts |-> b.ms, bid |-> b.bestBid, ask |-> b.bestAsk,
      bidSize |-> b.bidSz, askSize |-> b.askSz,
      spread |-> FSub(b.bestAsk, b.bestBid), mid |-> mid,
      logret |-> IF set_lr /\ prev_mid > 0 /\ mid > 0 THEN Log(mid, prev_mid) ELSE NaN]

(***************************************************************************)
(* Pipeline::process_file_to_msbin, one run of it                          *)
(***************************************************************************)
\* Settings: the fields stage A reads
EventS == [clock_grid |-> FALSE, ffill |-> FALSE, max_ffill_gap_ms |-> 0]
ClockS(gapMs) == [clock_grid |-> TRUE, ffill |-> TRUE, max_ffill_gap_ms |-> gapMs]

\* GlitchCounts: the totals by category, and by_hour as the map from the
\* (category, hour) pairs bumped so far to their counts
GlitchCounts0 ==
  [parse_fail |-> 0, nonpos_field |-> 0, nonpos_price |-> 0, locked_crossed |-> 0,
   by_hour |-> <<>>]
\* the hour field of a timestamp, the h parsed from the line's time
HourOf(t) == t.tod \div E7
\* ++by_hour[cat][hour]
bump_hour(m, cat, hour) ==
  IF <<cat, hour>> \in DOMAIN m THEN [m EXCEPT ![<<cat, hour>>] = @ + 1]
  ELSE [k \in (DOMAIN m) \cup {<<cat, hour>>} |->
          IF k = <<cat, hour>> THEN 1 ELSE m[k]]
\* GlitchCounts::bump that counts the total only
bump_TotalOnly(G, cat, hour) == IF cat = "" THEN G ELSE [G EXCEPT ![cat] = @ + 1]
\* GlitchCounts::bump
bump(G, cat, hour) ==
  IF cat = "" THEN G
  ELSE [G EXCEPT ![cat] = @ + 1, !.by_hour = bump_hour(@, cat, hour)]

\* The locals of process_file_to_msbin before the first line; out is the msbin
\* file written so far and fillMask tells, row for row, which rows the fill
\* loop wrote.
Run0 ==
  [bucket |-> NBBOBucket_reset(TsZero), prev_mid |-> 0, prev_date |-> 0,
   have_prev |-> FALSE, prev_row |-> Row0, have_prev_row |-> FALSE,
   last_emit |-> TsZero, out |-> <<>>, fillMask |-> <<>>, G |-> GlitchCounts0]

\* the fill loop: for(g=0; g<gap; ++g){ t=inc_ms(t); Row f=prev_row; f.ts=t;
\* f.logret=0; write f; last_emit=t; }
RECURSIVE FillRows(_, _, _)
FillRows(prev_row, t, gap) ==
  IF gap <= 0 THEN <<>>
  ELSE LET t1 == inc_ms(t)
       IN <<[prev_row EXCEPT !.ts = t1, !.logret = ZeroLr]>>
            \o FillRows(prev_row, t1, gap - 1)

FalseSeq(n) == [i \in 1..n |-> FALSE]
TrueSeq(n) == [i \in 1..n |-> TRUE]

\* the body of `if(ts != bucket.ms){ ... }` up to, not including, bucket.reset(ts)
EmitBucket(run, S) ==
  IF ~run.bucket.any THEN run
  ELSE
    LET r0 == NBBOBucket_out(run.bucket,
                             IF run.have_prev THEN run.prev_mid ELSE 0, TRUE)
        r  == IF ~run.have_prev \/ ymd(r0.ts) # run.prev_date
              THEN [r0 EXCEPT !.logret = NaN] ELSE r0
        inFill == S.clock_grid /\ S.ffill /\ run.have_prev_row
        sameDay == same_day(run.last_emit, r.ts)
        gap == ms_since_midnight(r.ts) - ms_since_midnight(run.last_emit) - 1
        doFill == inFill /\ sameDay /\ gap > 0 /\ gap <= S.max_ffill_gap_ms
        fills == IF doFill THEN FillRows(run.prev_row, run.last_emit, gap) ELSE <<>>
        \* have_prev as the fill block leaves it
        have_prev_1 ==
          IF inFill /\ sameDay /\ ~doFill /\ gap > S.max_ffill_gap_ms THEN FALSE
          ELSE IF inFill /\ ~sameDay THEN FALSE
          ELSE run.have_prev
        afterFill == [run EXCEPT !.have_prev = have_prev_1,
                                 !.out = @ \o fills,
                                 !.fillMask = @ \o TrueSeq(Len(fills))]
    \* bin.write(r); prev_mid=new_mid; prev_date=ymd(r.ts); have_prev=true;
    \* last_emit=r.ts; prev_row=r; have_prev_row=true;
    IN [afterFill EXCEPT !.out = @ \o <<r>>,
                         !.fillMask = @ \o <<FALSE>>,
                         !.prev_mid = r.mid, !.prev_date = ymd(r.ts),
                         !.have_prev = TRUE,
                         !.last_emit = r.ts, !.prev_row = r, !.have_prev_row = TRUE]

\* One pass of the `while(gz.getline(line))` body for a line that passed the
\* quote-condition, venue and session filters and parsed: q holds its fields.
ProcessLine(run, S, q) ==
  IF q.bid <= 0 \/ q.ask <= 0 \/ q.bidSize <= 0 \/ q.askSize <= 0
  THEN [run EXCEPT !.G = bump(@, "nonpos_field", HourOf(q.ts))]
  ELSE
    LET run1 == IF run.bucket.ms = TsZero
                THEN [run EXCEPT !.bucket = NBBOBucket_reset(q.ts)] ELSE run
        run2 == IF q.ts # run1.bucket.ms
                THEN [EmitBucket(run1, S) EXCEPT !.bucket = NBBOBucket_reset(q.ts)]
                ELSE run1
    IN [run2 EXCEPT !.bucket = NBBOBucket_upd(@, q),
                    !.G = bump(@, NBBOBucket_upd_glitch(q), HourOf(q.ts))]

\* end of input that drops the open bucket
FinalFlush_Drop(run) == run

\* after the loop: `if(bucket.ms){ ... bin.write ... }`, which has no fill block
FinalFlush(run) ==
  IF run.bucket.ms = TsZero \/ ~run.bucket.any THEN run
  ELSE
    LET r0 == NBBOBucket_out(run.bucket,
                             IF run.have_prev THEN run.prev_mid ELSE 0, TRUE)
        r  == IF ~run.have_prev \/ ymd(r0.ts) # run.prev_date
              THEN [r0 EXCEPT !.logret = NaN] ELSE r0
    IN [run EXCEPT !.out = @ \o <<r>>, !.fillMask = @ \o <<FALSE>>]

(***************************************************************************)
(* Pipeline::event_to_clock_ffill_parallel, convert_one on one msbin       *)
(***************************************************************************)
Conv0 == [prev |-> Row0, have_prev |-> FALSE, last_emit_ts |-> TsZero,
          out |-> <<>>, fillMask |-> <<>>]

\* one pass of `while(in.read(r))`
ConvertRow(c, r, gapMs) ==
  LET sameDay == same_day(c.last_emit_ts, r.ts)
      gap == ms_since_midnight(r.ts) - ms_since_midnight(c.last_emit_ts) - 1
      doFill == c.have_prev /\ sameDay /\ gap > 0 /\ gap <= gapMs
      fills == IF doFill THEN FillRows(c.prev, c.last_emit_ts, gap) ELSE <<>>
  IN [prev |-> r, have_prev |-> TRUE, last_emit_ts |-> r.ts,
      out |-> (c.out \o fills) \o <<r>>,
      fillMask |-> (c.fillMask \o TrueSeq(Len(fills))) \o <<FALSE>>]

RECURSIVE ConvertFrom(_, _, _, _)
ConvertFrom(c, rows, i, gapMs) ==
  IF i > Len(rows) THEN c
  ELSE ConvertFrom(ConvertRow(c, rows[i], gapMs), rows, i + 1, gapMs)

\* convert_one: the ms_clock file written for an ms_event file
convert_one(rows, gapMs) == ConvertFrom(Conv0, rows, 1, gapMs)

(***************************************************************************)
(* Stage A as a state machine.  The same lines are fed to a run with the   *)
(* event settings and to a run with the clock settings (--clock --ffill);  *)
(* after end of input the event msbin is converted by convert_one.         *)
(***************************************************************************)
\* day d at ms milliseconds since midnight
FromMs(d, ms) ==
  MakeTs(d, ms \div 3600000, (ms \div 60000) % 60, (ms \div 1000) % 60, ms % 1000)

\* first timestamps of the input files: just before 10:00 on the first day
\* and the opening of the next day
Anchor1 == MakeTs(Day1, 9, 59, 59, 997)
Anchor2 == MakeTs(Day2, 9, 30, 0, 0)

\* timestamps the line after a line at t may carry (input is chronological)
NextTimes(t, maxDelta) ==
  IF t = TsZero THEN {Anchor1}
  ELSE { FromMs(t.day, ms_since_midnight(t) + d) : d \in 0..maxDelta }
         \cup (IF t.day = Day1 THEN {Anchor2} ELSE {})

\* the floats parse_float gives for the prices of 0.00, 0.01, 0.02, ... dollars
PxTable == [k \in 0..(MaxPx + 2) |-> parse_float(k)]
\* the bid or ask of a line whose price field reads k cents
Px(k) == PxTable[k]
Quote(t, b, a, bs, as) == [ts |-> t, bid |-> b, ask |-> a, bidSize |-> bs, askSize |-> as]

\* quotes for the grid specification: two-sided, sizes 1, two price levels
GridQuotes(t) == { Quote(t, Px(k), Px(k + 1), 1, 1) : k \in 1..2 }

\* quotes for the price specification: every well-formed quote, and quotes with
\* one defect (a zero price, a zero size, locked, crossed)
PxQuotes(t) ==
  { Quote(t, Px(b), Px(a), bs, as) :
      b \in 1..MaxPx, a \in 1..MaxPx, bs \in 1..MaxSz, as \in 1..MaxSz }
  \cup { Quote(t, 0, Px(2), 1, 1), Quote(t, Px(1), 0, 1, 1),
         Quote(t, Px(1), Px(2), 0, 1), Quote(t, Px(1), Px(2), 1, 0) }

\* a quote that reaches the bucket and is not rejected by it: positive
\* prices and sizes, ask above bid
Accepted(q) ==
  q.bid > 0 /\ q.ask > 0 /\ q.bidSize > 0 /\ q.askSize > 0 /\ q.ask > q.bid
\* the accepted quotes of the input, grouped by millisecond in input order
NoteAccepted(acc, q) ==
  IF ~Accepted(q) THEN acc
  ELSE IF acc # <<>> /\ acc[Len(acc)].ms = q.ts
  THEN [acc EXCEPT ![Len(acc)].quotes = Append(@, q)]
  ELSE Append(acc, [ms |-> q.ts, quotes |-> <<q>>])

\* the loop body on one more line
ReadLine(q) ==
  /\ pcA = "reading"
  /\ evRun' = ProcessLine(evRun, EventS, q)
  /\ ckRun' = ProcessLine(ckRun, ClockS(maxFfill), q)
  /\ inTs' = q.ts
  /\ nLines' = nLines + 1
  /\ inAcc' = NoteAccepted(inAcc, q)
  /\ UNCHANGED <<maxFfill, pcA, fallbackOut>>
  /\ UNCHANGED <<incVars, tq, pnl, den, evb, hist, bt, lookup, pq, pool, rth>>

\* getline fails: the last bucket is flushed and the msbin closed
EndOfInput ==
  /\ pcA = "reading"
  /\ evRun' = FinalFlush(evRun)
  /\ ckRun' = FinalFlush(ckRun)
  /\ pcA' = "flushed"
  /\ UNCHANGED <<maxFfill, inTs, nLines, fallbackOut>>
  /\ UNCHANGED <<incVars, tq, pnl, den, evb, hist, bt, lookup, inAcc, pq, pool, rth>>

\* the event->clock fallback on the event msbin just written
EventToClock ==
  /\ pcA = "flushed"
  /\ fallbackOut' = convert_one(evRun.out, maxFfill)
  /\ pcA' = "converted"
  /\ UNCHANGED <<maxFfill, evRun, ckRun, inTs, nLines>>
  /\ UNCHANGED <<incVars, tq, pnl, den, evb, hist, bt, lookup, inAcc, pq, pool, rth>>

GridRead ==
  /\ nLines < MaxLines
  /\ \E t \in NextTimes(inTs, maxFfill + 2) : \E q \in GridQuotes(t) : ReadLine(q)

PxRead ==
  /\ nLines < MaxPxLines
  /\ \E t \in NextTimes(inTs, 1) : \E q \in PxQuotes(t) : ReadLine(q)

\* quotes for the bucket specification: bids of 0.01 or 0.02, asks of 0.04 or
\* 0.05, sizes 1 and 2 or 2 and 1, and two rejected quotes (locked, a zero
\* size).  0.01/0.05 and 0.02/0.04 have the same exact mid, and float mids
\* one unit in the last place apart.
BkQuotes(t) ==
  { Quote(t, Px(b), Px(a), sz, 3 - sz) : b \in 1..2, a \in 4..5, sz \in 1..2 }
  \cup { Quote(t, Px(2), Px(2), 1, 1), Quote(t, Px(1), Px(3), 0, 1) }

BkRead ==
  /\ nLines < MaxBkLines
  /\ \E t \in NextTimes(inTs, 1) : \E q \in BkQuotes(t) : ReadLine(q)

\* quotes for the glitch specification: two accepted quotes, and one quote
\* for each way of being rejected (a zero bid, ask, bid size, ask size, a
\* locked and a crossed quote)
GlQuotes(t) ==
  { Quote(t, Px(1), Px(3), 1, 2), Quote(t, Px(2), Px(3), 2, 1),
    Quote(t, 0, Px(3), 1, 1), Quote(t, Px(1), 0, 1, 1),
    Quote(t, Px(1), Px(3), 0, 1), Quote(t, Px(1), Px(3), 1, 0),
    Quote(t, Px(2), Px(2), 1, 1), Quote(t, Px(3), Px(2), 1, 1) }

\* timestamps of the glitch specification: the same millisecond, 3 ms later
\* (from 09:59:59.997 into the next hour), or the next day
GlTimes(t) ==
  IF t = TsZero THEN {Anchor1}
  ELSE { t, FromMs(t.day, ms_since_midnight(t) + 3) }
         \cup (IF t.day = Day1 THEN {Anchor2} ELSE {})

GlRead ==
  /\ nLines < MaxGlLines
  /\ \E t \in GlTimes(inTs) : \E q \in GlQuotes(t) : ReadLine(q)

(***************************************************************************)
(* Pipeline::tail_quantiles_parallel                                       *)
(***************************************************************************)
MaxShards == 3         \* msbin files handed to the tail pass
MaxRows == 2           \* rows of one msbin file
MaxVal == 2            \* finite log returns are 1..MaxVal
MaxWorkers == 2        \* S.workers is 1..MaxWorkers
QDen == 4              \* quantiles are k/QDen

\* const size_t L = 200'000
L == 200000

\* A heap is held as the ascending sequence of its elements: a MaxHeap's top
\* is the last element, a MinHeap's top the first.
RECURSIVE InsertSorted(_, _)
InsertSorted(h, v) ==
  IF h = <<>> THEN <<v>>
  ELSE IF v <= Head(h) THEN <<v>> \o h
  ELSE <<Head(h)>> \o InsertSorted(Tail(h), v)

DropLast(h) == SubSeq(h, 1, Len(h) - 1)

\* push_low: keep the L smallest
push_low(hp, v) ==
  IF Len(hp) < L THEN InsertSorted(hp, v)
  ELSE IF v < hp[Len(hp)] THEN InsertSorted(DropLast(hp), v)
  ELSE hp

\* push_high: keep the L largest
push_high(hp, v) ==
  IF Len(hp) < L THEN InsertSorted(hp, v)
  ELSE IF v > Head(hp) THEN InsertSorted(Tail(hp), v)
  ELSE hp

\* rows of an msbin file as the tail pass sees them: the logret only
FiniteRow(v) == [fin |-> TRUE, v |-> v]
NaNRow == [fin |-> FALSE, v |-> 0]
TailRows == {NaNRow} \cup { FiniteRow(v) : v \in 1..MaxVal }
SeqsUpTo(S, n) == UNION { [1..k -> S] : k \in 0..n }
ShardFiles == SeqsUpTo(TailRows, MaxRows)

Worker0 == [pc |-> "claim", i |-> 0, loc_low |-> <<>>, loc_high |-> <<>>, locN |-> 0]

\* the inner `while(in.read(r))` of a worker over one file, from local state w
RECURSIVE ScanRows(_, _, _)
ScanRows(w, rows, k) ==
  IF k > Len(rows) THEN w
  ELSE ScanRows(IF isfinite(rows[k])
                THEN [w EXCEPT !.locN = @ + 1,
                               !.loc_low = push_low(@, rows[k].v),
                               !.loc_high = push_high(@, rows[k].v)]
                ELSE w,
                rows, k + 1)

\* `while(!loc.empty()){ push(global, loc.top()); loc.pop(); }` for the low
\* heap (tops come out largest first) and the high heap (smallest first)
RECURSIVE DrainLow(_, _)
DrainLow(g, loc) ==
  IF loc = <<>> THEN g ELSE DrainLow(push_low(g, loc[Len(loc)]), DropLast(loc))
RECURSIVE DrainHigh(_, _)
DrainHigh(g, loc) ==
  IF loc = <<>> THEN g ELSE DrainHigh(push_high(g, Head(loc)), Tail(loc))

\* the pass before its threads start: files, settings, empty global heaps;
\* gone holds the indices i of the msbins[i] that cannot be opened
Tq0(files, gone, W, ql, qh) ==
  [pc |-> "run", msbins |-> files, gone |-> gone, q_lo |-> ql, q_hi |-> qh,
   idx |-> 0, N_finite |-> 0, global_lows |-> <<>>, global_highs |-> <<>>,
   worker |-> [w \in 1..W |-> Worker0],
   cut_lo |-> NaNRow, cut_hi |-> NaNRow]
TqIdleState == [pc |-> "idle"]

\* size_t i = idx.fetch_add(1); if(i>=msbins.size()) break;
TqClaim(w) ==
  /\ tq.pc = "run"
  /\ tq.worker[w].pc = "claim"
  /\ tq' = [tq EXCEPT !.idx = @ + 1,
                      !.worker[w].i = tq.idx,
                      !.worker[w].pc = IF tq.idx >= Len(tq.msbins)
                                       THEN "done" ELSE "scan"]
  /\ UNCHANGED <<incVars, aggVars, pnl, den, evb, hist, bt, lookup, inAcc, pq, pool, rth>>

\* std::ifstream in(p); if(!in) throw ...; while(in.read(r)){ ... }: the file
\* is read into the worker's own heaps, no lock held.  The throw leaves the
\* thread function, which ends the process (std::terminate).
TqScan(w) ==
  /\ tq.pc = "run"
  /\ tq.worker[w].pc = "scan"
  /\ tq' = IF tq.worker[w].i \in tq.gone
           THEN [tq EXCEPT !.pc = "terminated"]
           ELSE [tq EXCEPT !.worker[w] =
                   [ScanRows(@, tq.msbins[tq.worker[w].i + 1], 1)
                      EXCEPT !.pc = "merge"]]
  /\ UNCHANGED <<incVars, aggVars, pnl, den, evb, hist, bt, lookup, inAcc, pq, pool, rth>>

\* { std::lock_guard<std::mutex> lk(mu); N_finite += locN; both local heaps
\* are drained into the global ones }: one worker at a time
TqMerge(w) ==
  /\ tq.pc = "run"
  /\ tq.worker[w].pc = "merge"
  /\ tq' = [tq EXCEPT !.N_finite = @ + tq.worker[w].locN,
                      !.global_lows = DrainLow(@, tq.worker[w].loc_low),
                      !.global_highs = DrainHigh(@, tq.worker[w].loc_high),
                      !.worker[w] = [@ EXCEPT !.loc_low = <<>>,
                                              !.loc_high = <<>>,
                                              !.pc = "claim"]]
  /\ UNCHANGED <<incVars, aggVars, pnl, den, evb, hist, bt, lookup, inAcc, pq, pool, rth>>

\* after the joins: the ranks and the two cutoffs
TqCutoffs ==
  /\ tq.pc = "run"
  /\ \A w \in DOMAIN tq.worker : tq.worker[w].pc = "done"
  /\ LET N == tq.N_finite
         lows == tq.global_lows
         highs == tq.global_highs
         r_lo == (tq.q_lo * N) \div QDen
         r_hi == (tq.q_hi * N) \div QDen
         idx_lo == IF r_lo < Len(lows) THEN r_lo
                   ELSE IF lows = <<>> THEN 0 ELSE Len(lows) - 1
         base == IF Len(highs) < N THEN N - Len(highs) ELSE 0
         idx_hi == IF r_hi <= base THEN 0 ELSE Min(r_hi - base, Len(highs) - 1)
     IN tq' = [tq EXCEPT !.pc = "done",
                 !.cut_lo = IF N = 0 \/ lows = <<>> THEN NaNRow
                            ELSE FiniteRow(lows[idx_lo + 1]),
                 !.cut_hi = IF N = 0 \/ highs = <<>> THEN NaNRow
                            ELSE FiniteRow(highs[idx_hi + 1])]
  /\ UNCHANGED <<incVars, aggVars, pnl, den, evb, hist, bt, lookup, inAcc, pq, pool, rth>>

(***************************************************************************)
(* PnLAggregator (pnl_aggregator.cpp), driven as Backtester::RunForYear    *)
(* drives it: StartYear, OnTrade for each trade, FinalizeYear.             *)
(* Returns are integers.  ndebug tells whether the asserts are compiled    *)
(* out; when one fails in a debug build the process aborts (aborted).      *)
(***************************************************************************)
MaxTrades == 4         \* OnTrade calls over the whole run
MaxPnlDay == 3         \* trade days are 0 (none) or 1..MaxPnlDay
MaxYears == 2          \* RunForYear calls

Pnl0(nd) ==
  [year |-> 0, trades |-> <<>>, daily_rows |-> <<>>, current_day |-> 0,
   day_trade_count |-> 0, day_gross_sum |-> 0, day_net_sum |-> 0,
   cumulative_net |-> 0,
   ndebug |-> nd, aborted |-> FALSE, phase |-> "idle", nCalls |-> 0, nYears |-> 0,
   \* the trades handed to OnTrade since StartYear, in call order
   offered |-> <<>>]

\* what the asserts of CheckInvariants require
CheckInvariantsHolds(p) ==
  /\ p.current_day = 0 =>
       p.day_trade_count = 0 /\ p.day_gross_sum = 0 /\ p.day_net_sum = 0
  /\ p.day_trade_count = 0 => p.day_gross_sum = 0 /\ p.day_net_sum = 0
  /\ \A i \in 1..Len(p.daily_rows) :
       /\ p.daily_rows[i].day > 0
       /\ p.daily_rows[i].day > (IF i = 1 THEN 0 ELSE p.daily_rows[i - 1].day)
  /\ (p.daily_rows # <<>> /\ p.current_day # 0) =>
       p.current_day > p.daily_rows[Len(p.daily_rows)].day

\* CheckInvariants(): nothing under NDEBUG, abort on a failed assert otherwise
CheckInvariants(p) ==
  IF p.ndebug \/ p.aborted \/ CheckInvariantsHolds(p) THEN p
  ELSE [p EXCEPT !.aborted = TRUE]

\* a mutant of FlushCurrentDay: the row carries the day's net sum where the
\* running total belongs
FlushCurrentDay_DaySum(p) ==
  IF p.current_day = 0 \/ p.day_trade_count = 0 THEN p
  ELSE CheckInvariants(
         [p EXCEPT !.daily_rows = Append(@,
            [day |-> p.current_day, num_trades |-> p.day_trade_count,
             gross_ret_sum |-> p.day_gross_sum, net_ret_sum |-> p.day_net_sum,
             cumulative_net_ret |-> p.day_net_sum]),
                   !.day_trade_count = 0, !.day_gross_sum = 0, !.day_net_sum = 0])

\* PnLAggregator::FlushCurrentDay (the means are sum / count and not held)
FlushCurrentDay(p) ==
  IF p.current_day = 0 \/ p.day_trade_count = 0
  THEN \* asserts of the nothing-to-flush branch
       IF p.ndebug \/ (p.day_trade_count = 0 /\ p.day_gross_sum = 0
                                            /\ p.day_net_sum = 0)
       THEN p ELSE [p EXCEPT !.aborted = TRUE]
  ELSE CheckInvariants(
         [p EXCEPT !.daily_rows = Append(@,
            [day |-> p.current_day, num_trades |-> p.day_trade_count,
             gross_ret_sum |-> p.day_gross_sum, net_ret_sum |-> p.day_net_sum,
             cumulative_net_ret |-> p.cumulative_net]),
                   !.day_trade_count = 0, !.day_gross_sum = 0, !.day_net_sum = 0])

\* StartYear that keeps the daily rows and the running total of the year
\* before
StartYearOp_KeepRows(p, y) ==
  CheckInvariants(
    [p EXCEPT !.year = y, !.trades = <<>>,
              !.current_day = 0, !.day_trade_count = 0, !.day_gross_sum = 0,
              !.day_net_sum = 0])

\* PnLAggregator::StartYear
StartYearOp(p, y) ==
  CheckInvariants(
    [p EXCEPT !.year = y, !.trades = <<>>, !.daily_rows = <<>>,
              !.current_day = 0, !.day_trade_count = 0, !.day_gross_sum = 0,
              !.day_net_sum = 0, !.cumulative_net = 0])

\* PnLAggregator::OnTrade
OnTradeOp(p, trade) ==
  LET p0 == CheckInvariants(p)
  IN IF p0.aborted \/ trade.day = 0 THEN p0
     ELSE LET p1 == IF p0.current_day = 0 THEN [p0 EXCEPT !.current_day = trade.day]
                    ELSE IF trade.day # p0.current_day
                    THEN LET f == FlushCurrentDay(p0)
                         IN IF f.aborted THEN f ELSE [f EXCEPT !.current_day = trade.day]
                    ELSE p0
          IN IF p1.aborted THEN p1
             ELSE CheckInvariants(
                    [p1 EXCEPT !.trades = Append(@, trade),
                               !.day_trade_count = @ + 1,
                               !.day_gross_sum = @ + trade.gross_ret,
                               !.day_net_sum = @ + trade.net_ret,
                               !.cumulative_net = @ + trade.net_ret])

\* PnLAggregator::FinalizeYear (the CSV files are daily_rows and trades)
FinalizeYearOp(p) == CheckInvariants(FlushCurrentDay(p))

\* the day of the last trade recorded this year, 0 if none
LastTradeDay(p) == IF p.trades = <<>> THEN 0 ELSE p.trades[Len(p.trades)].day


StartYear ==
  /\ pnl.phase \in {"new", "final"} /\ ~pnl.aborted
  /\ pnl.nYears < MaxYears
  /\ \E y \in {2023 + pnl.nYears} :
       pnl' = [StartYearOp(pnl, y) EXCEPT !.phase = "open", !.nYears = @ + 1,
                                          !.offered = <<>>]
  /\ UNCHANGED <<incVars, aggVars, tq, den, evb, hist, bt, lookup, inAcc, pq, pool, rth>>

\* gross and net return of a trade: a loss and a gain, net of a cost of 1
PnlRets == { <<0, 0 - 1>>, <<3, 2>> }

\* trades reach the aggregator in file order: days never decrease in a year
OnTrade ==
  /\ pnl.phase = "open" /\ ~pnl.aborted
  /\ pnl.nCalls < MaxTrades
  /\ \E d \in {0} \cup (Max(1, LastTradeDay(pnl))..MaxPnlDay) :
     \E r \in PnlRets :
       LET trade == [day |-> d, gross_ret |-> r[1], net_ret |-> r[2]]
       IN pnl' = [OnTradeOp(pnl, trade) EXCEPT !.nCalls = @ + 1,
                                               !.offered = Append(@, trade)]
  /\ UNCHANGED <<incVars, aggVars, tq, den, evb, hist, bt, lookup, inAcc, pq, pool, rth>>

FinalizeYear ==
  /\ pnl.phase = "open" /\ ~pnl.aborted
  /\ pnl' = [FinalizeYearOp(pnl) EXCEPT !.phase = "final"]
  /\ UNCHANGED <<incVars, aggVars, tq, den, evb, hist, bt, lookup, inAcc, pq, pool, rth>>

(***************************************************************************)
(* Spike denoiser: the row loop of main                                    *)
(***************************************************************************)
MaxTicks == 4          \* rows of the input file
MaxDenDay == 2         \* input days are 1..MaxDenDay

\* double threshold = 100.0 (the --thr default)
threshold == 100
\* const double MID_MAX = 1000.0
MID_MAX == 1000
\* const std::size_t MAX_EXAMPLES = 10
MAX_EXAMPLES == 10

\* mids of the input rows
Mids == {50, 80, 100, 149, 150, 250, 1000, 1200}

Den0 ==
  [total_rows_in |-> 0, total_rows_out |-> 0, total_removed |-> 0,
   removed_by_delta |-> 0, removed_by_level |-> 0,
   last_day |-> 0, last_ts |-> 0, last_mid |-> 0, have_last |-> FALSE,
   kept_per_day |-> [d \in 1..MaxDenDay |-> 0],
   removed_per_day |-> [d \in 1..MaxDenDay |-> 0],
   delta_examples |-> <<>>,
   \* the rows read so far with the keep mask bit appended for each
   rows |-> <<>>]

\* a mutant of the delta test: a jump of exactly the threshold passes
BigDelta_Strict(delta) == delta > threshold

\* big_delta = (delta >= threshold)
BigDelta(delta) == delta >= threshold

\* One pass of `for (i = 0; i < n; ++i)`.  row = [null, day, ts, mid], null
\* when ts or mid is null; day = day_from_ts(ts).  The kept rows of a batch are
\* counted into total_rows_out after the batch; here row by row.
DenoiseRow(s, row) ==
  IF row.null
  THEN [s EXCEPT !.rows = Append(@, [row EXCEPT !.keep = FALSE])]
  ELSE
    LET day == row.day
        mid == row.mid
        big_level == mid > MID_MAX
        first == ~s.have_last \/ day # s.last_day
        delta == Abs(mid - s.last_mid)
        big_delta == ~first /\ BigDelta(delta)
        keep == IF first THEN ~big_level ELSE ~big_delta /\ ~big_level
        s1 == IF first
              THEN IF big_level
                   THEN [s EXCEPT !.removed_by_level = @ + 1,
                                  !.removed_per_day[day] = @ + 1,
                                  !.have_last = FALSE]
                   ELSE [s EXCEPT !.kept_per_day[day] = @ + 1,
                                  !.last_day = day, !.last_mid = mid,
                                  !.last_ts = row.ts, !.have_last = TRUE]
              ELSE IF big_delta
                   THEN [s EXCEPT !.removed_by_delta = @ + 1,
                                  !.removed_per_day[day] = @ + 1,
                                  !.delta_examples =
                                     IF Len(@) < MAX_EXAMPLES
                                     THEN Append(@, [day |-> day, ts_prev |-> s.last_ts,
                                                     ts_curr |-> row.ts,
                                                     mid_prev |-> s.last_mid,
                                                     mid_curr |-> mid, delta |-> delta])
                                     ELSE @]
                   ELSE IF big_level
                   THEN [s EXCEPT !.removed_by_level = @ + 1,
                                  !.removed_per_day[day] = @ + 1]
                   ELSE [s EXCEPT !.kept_per_day[day] = @ + 1,
                                  !.last_mid = mid, !.last_ts = row.ts,
                                  !.last_day = day]
    IN [s1 EXCEPT !.rows = Append(@, [row EXCEPT !.keep = keep]),
                  !.total_rows_in = @ + 1,
                  !.total_removed = IF keep THEN @ ELSE @ + 1,
                  !.total_rows_out = IF keep THEN @ + 1 ELSE @]

\* the day of the last row read, 1 before any
DenDay == IF den.rows = <<>> THEN 1 ELSE den.rows[Len(den.rows)].day

\* the next row of the file: rows are in time order, so days never decrease;
\* ts is the row's position in the file
DenRead ==
  /\ Len(den.rows) < MaxTicks
  /\ \E d \in DenDay..MaxDenDay : \E m \in Mids : \E nl \in BOOLEAN :
       /\ nl => m = 50
       /\ den' = DenoiseRow(den, [null |-> nl, day |-> d, ts |-> Len(den.rows) + 1,
                                  mid |-> m, keep |-> FALSE])
  /\ UNCHANGED <<incVars, aggVars, tq, pnl, evb, hist, bt, lookup, inAcc, pq, pool, rth>>

\* rows of the single-day example stream
MaxExTicks == 5
\* the mids of the documented example stream, in file order
ExampleStream == <<50, 1200, 80, 100, 250>>
ExampleMids == { ExampleStream[i] : i \in 1..Len(ExampleStream) }

\* the next row of a single-day file whose mids are those of the example
DenExampleRead ==
  /\ Len(den.rows) < MaxExTicks
  /\ \E m \in ExampleMids :
       den' = DenoiseRow(den, [null |-> FALSE, day |-> 1, ts |-> Len(den.rows) + 1,
                               mid |-> m, keep |-> FALSE])
  /\ UNCHANGED <<incVars, aggVars, tq, pnl, evb, hist, bt, lookup, inAcc, pq, pool, rth>>

(***************************************************************************)
(* EventTableBuilder: labeled mid-change events from a tick stream.        *)
(* Prices are in half dollars, so that mid = (bid + ask) / 2 of whole      *)
(* dollar quotes is an integer.                                            *)
(***************************************************************************)
MaxEvRows == 3         \* rows of the builder's input file

\* BuildEventsConfig::threshold_next = 1.0 dollar, in half dollars
threshold_next == 2

\* a rational number num / den, den > 0
Rat(n, d) == [num |-> n, den |-> d]
RatZero == Rat(0, 1)

\* nbbo::LabeledEvent event{}
LabeledEvent0 ==
  [ts |-> TsZero, day |-> 0, mid |-> 0, mid_next |-> 0, spread |-> 0,
   imbalance |-> RatZero, age_diff_ms |-> 0, last_move |-> 0, y |-> 0, tau_ms |-> 0]

\* the builder after construction; written is what writer_ was given, rows
\* the input rows consumed so far, pc the position in run()
Evb0 ==
  [ticks_total |-> 0, events_detected |-> 0, events_written |-> 0,
   events_dropped_bigmove |-> 0, events_dropped_boundary |-> 0,
   curr_day |-> 0, have_day |-> FALSE,
   last_bid_price |-> 0, last_ask_price |-> 0,
   bid_origin_ms |-> 0, ask_origin_ms |-> 0, age_bid_ms |-> 0, age_ask_ms |-> 0,
   last_move_sign |-> 0, have_prev_event |-> FALSE, prev_event |-> LabeledEvent0,
   written |-> <<>>, rows |-> <<>>, pc |-> "idle",
   \* for each written event the input rows of the event and of the event
   \* that labeled it; the input row of the pending event
   written_from |-> <<>>, prev_row |-> 0]

\* a mutant of start_new_day: the pending event survives the day change
start_new_day_KeepPending(b, day, ts, bid, ask) ==
  LET ms == ms_since_midnight(ts)
  IN [b EXCEPT !.curr_day = day, !.have_day = TRUE,
               !.last_bid_price = bid, !.last_ask_price = ask,
               !.bid_origin_ms = ms, !.ask_origin_ms = ms,
               !.last_move_sign = 0]

\* start_new_day that carries the last move into the new day
start_new_day_KeepSign(b, day, ts, bid, ask) ==
  LET ms == ms_since_midnight(ts)
      b1 == [b EXCEPT !.curr_day = day, !.have_day = TRUE,
                      !.last_bid_price = bid, !.last_ask_price = ask,
                      !.bid_origin_ms = ms, !.ask_origin_ms = ms]
  IN IF b1.have_prev_event
     THEN [b1 EXCEPT !.events_dropped_boundary = @ + 1, !.have_prev_event = FALSE]
     ELSE b1

\* EventTableBuilder::start_new_day
start_new_day(b, day, ts, bid, ask) ==
  LET ms == ms_since_midnight(ts)
      b1 == [b EXCEPT !.curr_day = day, !.have_day = TRUE,
                      !.last_bid_price = bid, !.last_ask_price = ask,
                      !.bid_origin_ms = ms, !.ask_origin_ms = ms,
                      !.last_move_sign = 0]
  IN IF b1.have_prev_event
     THEN [b1 EXCEPT !.events_dropped_boundary = @ + 1, !.have_prev_event = FALSE]
     ELSE b1

\* finish_day that forgets the pending event without counting it
finish_day_NoCount(b) == [b EXCEPT !.have_prev_event = FALSE]

\* EventTableBuilder::finish_day
finish_day(b) ==
  IF b.have_prev_event
  THEN [b EXCEPT !.events_dropped_boundary = @ + 1, !.have_prev_event = FALSE]
  ELSE b

\* update_quote_ages that restarts the ask's age only when the bid moves
update_quote_ages_BidOnly(b, ms, bid, ask) ==
  LET b1 == IF bid # b.last_bid_price
            THEN [b EXCEPT !.last_bid_price = bid, !.bid_origin_ms = ms,
                           !.last_ask_price = ask, !.ask_origin_ms = ms]
            ELSE b
  IN [b1 EXCEPT !.age_bid_ms = ms - b1.bid_origin_ms,
                !.age_ask_ms = ms - b1.ask_origin_ms]

\* EventTableBuilder::update_quote_ages
update_quote_ages(b, ms, bid, ask) ==
  LET b1 == IF bid # b.last_bid_price
            THEN [b EXCEPT !.last_bid_price = bid, !.bid_origin_ms = ms] ELSE b
      b2 == IF ask # b1.last_ask_price
            THEN [b1 EXCEPT !.last_ask_price = ask, !.ask_origin_ms = ms] ELSE b1
  IN [b2 EXCEPT !.age_bid_ms = ms - b2.bid_origin_ms,
                !.age_ask_ms = ms - b2.ask_origin_ms]

\* EventTableBuilder::compute_imbalance
compute_imbalance(bid_sz, ask_sz) ==
  LET denom == bid_sz + ask_sz
  IN IF denom = 0 THEN RatZero ELSE Rat(bid_sz - ask_sz, denom)

\* (dmid > 0.0 ? 1.0 : (dmid < 0.0 ? -1.0 : 0.0))
SignOf(x) == IF x > 0 THEN 1 ELSE IF x < 0 THEN -1 ELSE 0

\* a mutant of label_and_emit_prev: a flat move is labeled as an up move
label_and_emit_prev_FlatUp(b, event, ms_curr) ==
  IF ~b.have_prev_event \/ b.prev_event.day # event.day THEN b
  ELSE
    LET dmid == event.mid - b.prev_event.mid
    IN IF Abs(dmid) <= threshold_next
       THEN LET ms_prev == ms_since_midnight(b.prev_event.ts)
                labeled == [b.prev_event EXCEPT !.mid_next = event.mid,
                                                !.y = IF dmid >= 0 THEN 1 ELSE -1,
                                                !.tau_ms = ms_curr - ms_prev]
            IN [b EXCEPT !.prev_event = labeled,
                         !.written = Append(@, labeled),
                         !.written_from = Append(@, [e |-> b.prev_row, n |-> Len(b.rows)]),
                         !.events_written = @ + 1]
       ELSE [b EXCEPT !.events_dropped_bigmove = @ + 1]

\* a mutant of label_and_emit_prev: no outlier gate on the mid jump
label_and_emit_prev_NoGate(b, event, ms_curr) ==
  IF ~b.have_prev_event \/ b.prev_event.day # event.day THEN b
  ELSE
    LET dmid == event.mid - b.prev_event.mid
        ms_prev == ms_since_midnight(b.prev_event.ts)
        labeled == [b.prev_event EXCEPT !.mid_next = event.mid,
                                        !.y = SignOf(dmid),
                                        !.tau_ms = ms_curr - ms_prev]
    IN [b EXCEPT !.prev_event = labeled,
                 !.written = Append(@, labeled),
                 !.written_from = Append(@, [e |-> b.prev_row, n |-> Len(b.rows)]),
                 !.events_written = @ + 1]

\* EventTableBuilder::label_and_emit_prev
label_and_emit_prev(b, event, ms_curr) ==
  IF ~b.have_prev_event \/ b.prev_event.day # event.day THEN b
  ELSE
    LET dmid == event.mid - b.prev_event.mid
    IN IF Abs(dmid) <= threshold_next
       THEN LET ms_prev == ms_since_midnight(b.prev_event.ts)
                labeled == [b.prev_event EXCEPT !.mid_next = event.mid,
                                                !.y = SignOf(dmid),
                                                !.tau_ms = ms_curr - ms_prev]
            IN [b EXCEPT !.prev_event = labeled,
                         !.written = Append(@, labeled),
                         !.written_from = Append(@, [e |-> b.prev_row, n |-> Len(b.rows)]),
                         !.events_written = @ + 1]
       ELSE [b EXCEPT !.events_dropped_bigmove = @ + 1]

\* EventTableBuilder::process_row.  row = [null, ts, mid, bid, ask, bid_sz,
\* ask_sz, spread, lr_null, lr]: null when a column other than log_return is
\* null at the row, lr_null when log_return is.
process_row(b, row) ==
  LET b0 == [b EXCEPT !.ticks_total = @ + 1, !.rows = Append(@, row)]
  IN IF row.null THEN b0
     ELSE
       LET lr == IF row.lr_null THEN NaN ELSE row.lr
           day == day_from_ts(row.ts)
           ms == ms_since_midnight(row.ts)
           b1 == IF ~b0.have_day \/ day # b0.curr_day
                 THEN start_new_day(b0, day, row.ts, row.bid, row.ask) ELSE b0
           b2 == update_quote_ages(b1, ms, row.bid, row.ask)
           imbalance == compute_imbalance(row.bid_sz, row.ask_sz)
           age_diff_ms == b2.age_bid_ms - b2.age_ask_ms
       IN IF ~isfinite(lr) \/ lr = ZeroLr THEN b2
          ELSE
            LET b3 == [b2 EXCEPT !.events_detected = @ + 1]
                event == [LabeledEvent0 EXCEPT !.ts = row.ts, !.day = day,
                                               !.mid = row.mid, !.spread = row.spread,
                                               !.imbalance = imbalance,
                                               !.age_diff_ms = age_diff_ms,
                                               !.last_move = b3.last_move_sign]
                b4 == label_and_emit_prev(b3, event, ms)
            IN [b4 EXCEPT !.last_move_sign = IF LrSign(lr) > 0 THEN 1 ELSE -1,
                          !.prev_event = event,
                          !.have_prev_event = TRUE,
                          !.prev_row = Len(b0.rows)]

\* ---- the builder's input: ticks in time order; a tick is 7 ms after the
\* one before it, or carries the same timestamp, or opens the next day
EvDeltas == {0, 7}
\* (bid, ask) of a tick, in half dollars: mids 200, 202 and 203
EvQuotes == {<<198, 202>>, <<198, 206>>, <<200, 206>>}
\* log_return column values: zero, an up move, a down move (null apart)
EvLogReturns == {ZeroLr, Log(2, 1), Log(1, 2)}

EvLastTs(b) == IF b.rows = <<>> THEN TsZero ELSE b.rows[Len(b.rows)].ts
EvNextTimes(t) ==
  IF t = TsZero THEN {Anchor1}
  ELSE { FromMs(t.day, ms_since_midnight(t) + d) : d \in EvDeltas }
         \cup (IF t.day = Day1 THEN {Anchor2} ELSE {})

EvTick(t, bid, ask, lrNull, lr, nl) ==
  [null |-> nl, ts |-> t, mid |-> (bid + ask) \div 2, bid |-> bid, ask |-> ask,
   bid_sz |-> IF bid = 198 THEN 0 ELSE 3, ask_sz |-> IF ask = 202 THEN 1 ELSE 0,
   spread |-> ask - bid, lr_null |-> lrNull, lr |-> lr]

\* process_stream: the next row of the input goes through process_row
EvbRead ==
  /\ evb.pc = "stream"
  /\ Len(evb.rows) < MaxEvRows
  /\ \E t \in EvNextTimes(EvLastTs(evb)) : \E q \in EvQuotes :
     \E lr \in EvLogReturns : \E lrNull \in BOOLEAN : \E nl \in BOOLEAN :
       /\ lrNull => lr = ZeroLr
       /\ nl => (q = <<198, 202>> /\ lr = ZeroLr /\ ~lrNull)
       /\ evb' = process_row(evb, EvTick(t, q[1], q[2], lrNull, lr, nl))
  /\ UNCHANGED <<incVars, aggVars, tq, pnl, den, hist, bt, lookup, inAcc, pq, pool, rth>>

\* run(): end of the stream, finish_day, writer_.close
EvbFinish ==
  /\ evb.pc = "stream"
  /\ evb' = [finish_day(evb) EXCEPT !.pc = "done"]
  /\ UNCHANGED <<incVars, aggVars, tq, pnl, den, hist, bt, lookup, inAcc, pq, pool, rth>>

(***************************************************************************)
(* HistogramModel and HistogramBuilder.  Spreads are in half cents, ages   *)
(* and tau in milliseconds; imbalance, alpha and the probabilities are     *)
(* rationals in lowest terms, a zero denominator standing for NaN.         *)
(***************************************************************************)
MaxHistRows == 4       \* rows of the events files the builder accumulates

N_IMB == 6
N_SPR == 3
N_AGE == 5
N_LAST == 3
N_CELLS == N_IMB * N_SPR * N_AGE * N_LAST

RECURSIVE Gcd(_, _)
Gcd(a, b) == IF b = 0 THEN a ELSE Gcd(b, a % b)

\* the rational n / d in lowest terms with a positive denominator
RatNorm(n, d) ==
  IF d = 0 THEN Rat(0, 0)
  ELSE LET g == Gcd(Abs(n), Abs(d))
           s == IF d < 0 THEN 0 - 1 ELSE 1
       IN Rat(s * (n \div g), s * (d \div g))
RatNaN == Rat(0, 0)
RatIsNaN(a) == a.den = 0
RatOfInt(i) == Rat(i, 1)
RatAdd(a, b) ==
  IF RatIsNaN(a) \/ RatIsNaN(b) THEN RatNaN
  ELSE RatNorm(a.num * b.den + b.num * a.den, a.den * b.den)
RatSub(a, b) ==
  IF RatIsNaN(a) \/ RatIsNaN(b) THEN RatNaN
  ELSE RatNorm(a.num * b.den - b.num * a.den, a.den * b.den)
RatMul(a, b) ==
  IF RatIsNaN(a) \/ RatIsNaN(b) THEN RatNaN
  ELSE RatNorm(a.num * b.num, a.den * b.den)
RatDiv(a, b) ==
  IF RatIsNaN(a) \/ RatIsNaN(b) THEN RatNaN
  ELSE RatNorm(a.num * b.den, a.den * b.num)
\* comparisons of doubles: false when an operand is NaN
RatLt(a, b) == ~RatIsNaN(a) /\ ~RatIsNaN(b) /\ a.num * b.den < b.num * a.den
RatLe(a, b) == ~RatIsNaN(a) /\ ~RatIsNaN(b) /\ a.num * b.den <= b.num * a.den
RatAbs(a) == Rat(Abs(a.num), a.den)

\* CellStats{}
CellStats0 == [n |-> 0, n_up |-> 0, n_down |-> 0, sum_tau_ms |-> 0]

\* a mutant of imb_bin: the bins below zero are closed on the right
imb_bin_ClosedRight(I) ==
  LET I1 == IF RatLt(I, RatOfInt(0 - 1)) THEN RatOfInt(0 - 1) ELSE I
      I2 == IF RatLt(RatOfInt(1), I1) THEN RatOfInt(1) ELSE I1
  IN IF RatLe(I2, Rat(0 - 7, 10)) THEN 0
     ELSE IF RatLe(I2, Rat(0 - 3, 10)) THEN 1
     ELSE IF RatLe(I2, Rat(0 - 1, 10)) THEN 2
     ELSE IF RatLe(I2, Rat(1, 10)) THEN 3
     ELSE IF RatLe(I2, Rat(3, 10)) THEN 4
     ELSE 5

\* HistogramModel::imb_bin
imb_bin(I) ==
  LET I1 == IF RatLt(I, RatOfInt(0 - 1)) THEN RatOfInt(0 - 1) ELSE I
      I2 == IF RatLt(RatOfInt(1), I1) THEN RatOfInt(1) ELSE I1
  IN IF RatLt(I2, Rat(0 - 7, 10)) THEN 0
     ELSE IF RatLt(I2, Rat(0 - 3, 10)) THEN 1
     ELSE IF RatLt(I2, Rat(0 - 1, 10)) THEN 2
     ELSE IF RatLe(I2, Rat(1, 10)) THEN 3
     ELSE IF RatLe(I2, Rat(3, 10)) THEN 4
     ELSE 5

\* HistogramModel::spr_bin; llround(spread / 0.01) of a spread of s half
\* cents rounds s / 2 half away from zero
spr_bin(spread) ==
  IF spread <= 0 THEN 0
  ELSE LET k == (spread + 1) \div 2
       IN IF k <= 1 THEN 0 ELSE IF k = 2 THEN 1 ELSE 2

\* HistogramModel::age_bin
age_bin(age_diff_ms) ==
  IF age_diff_ms < 0 - 200 THEN 0
  ELSE IF age_diff_ms < 0 - 50 THEN 1
  ELSE IF age_diff_ms <= 50 THEN 2
  ELSE IF age_diff_ms <= 200 THEN 3
  ELSE 4

\* HistogramModel::last_bin; L < -0.5 and L > 0.5 on an integer L
last_bin(last_move) ==
  IF 2 * last_move < 0 - 1 THEN 0 ELSE IF 2 * last_move > 1 THEN 2 ELSE 1

\* HistogramModel::cell_index(const TickState&)
cell_index(x) ==
  LET b_imb == imb_bin(x.imbalance)
      b_spr == spr_bin(x.spread)
      b_age == age_bin(x.age_diff_ms)
      b_last == last_bin(x.last_move)
  IN ((b_imb * N_SPR + b_spr) * N_AGE + b_age) * N_LAST + b_last

\* a mutant of p_up: no Laplace smoothing
p_up_Unsmoothed(h, k) ==
  LET c == h.cells[k]
      n_tot == c.n_up + c.n_down
  IN IF n_tot <= 0 THEN Rat(1, 2) ELSE RatNorm(c.n_up, n_tot)

\* HistogramModel::p_up(int k)
p_up(h, k) ==
  LET c == h.cells[k]
      n_tot == c.n_up + c.n_down
  IN IF n_tot <= 0 THEN Rat(1, 2)
     ELSE RatDiv(RatAdd(RatOfInt(c.n_up), h.alpha),
                 RatAdd(RatOfInt(n_tot), RatMul(RatOfInt(2), h.alpha)))

\* HistogramModel::p_down(int k)
p_down(h, k) == RatSub(RatOfInt(1), p_up(h, k))

\* HistogramModel::direction_score(int k)
direction_score(h, k) == RatSub(RatMul(RatOfInt(2), p_up(h, k)), RatOfInt(1))

\* the sums finalize_and_write_json takes over all cells
RECURSIVE GlobalSumTau(_, _, _)
GlobalSumTau(cells, lo, hi) ==
  IF lo > hi THEN 0
  ELSE IF lo = hi THEN cells[lo].sum_tau_ms
  ELSE LET m == (lo + hi) \div 2
       IN GlobalSumTau(cells, lo, m) + GlobalSumTau(cells, m + 1, hi)
RECURSIVE GlobalN(_, _, _)
GlobalN(cells, lo, hi) ==
  IF lo > hi THEN 0
  ELSE IF lo = hi THEN cells[lo].n
  ELSE LET m == (lo + hi) \div 2
       IN GlobalN(cells, lo, m) + GlobalN(cells, m + 1, hi)
\* finalize_and_write_json: tau_fallback, twice the global mean tau
tau_fallback(h) ==
  LET global_n == GlobalN(h.cells, 0, N_CELLS - 1)
  IN IF global_n > 0
     THEN RatNorm(2 * GlobalSumTau(h.cells, 0, N_CELLS - 1), global_n)
     ELSE RatZero

\* mean_tau_ms that answers with the fallback for an empty cell
mean_tau_ms_Sentinel(h, k) ==
  LET c == h.cells[k]
  IN IF c.n = 0 THEN tau_fallback(h) ELSE RatNorm(c.sum_tau_ms, c.n)

\* HistogramModel::mean_tau_ms(int k)
mean_tau_ms(h, k) ==
  LET c == h.cells[k]
  IN IF c.n = 0 THEN RatNaN ELSE RatNorm(c.sum_tau_ms, c.n)

\* the builder after construction: hist_ with empty cells and the default
\* alpha; rows counts the rows read, batch is the batch read last
Hist0 ==
  [cells |-> [k \in 0..(N_CELLS - 1) |-> CellStats0], alpha |-> Rat(1, 1),
   rows |-> 0, batch |-> <<>>, pc |-> "idle"]

\* no histogram: the value of hist in the runs of the other programs
HistNone == [cells |-> <<>>, alpha |-> RatZero, rows |-> 0, batch |-> <<>>, pc |-> "none"]

\* a mutant of accumulate_batch: a flat move is counted as an up move
RECURSIVE accumulate_batch_FlatUp(_, _)
accumulate_batch_FlatUp(h, batch) ==
  IF batch = <<>> THEN h
  ELSE
    LET row == Head(batch)
        k == cell_index(row.x)
        h1 == IF row.null THEN h
              ELSE [h EXCEPT !.cells[k].n = @ + 1,
                             !.cells[k].n_up = IF row.y >= 0 THEN @ + 1 ELSE @,
                             !.cells[k].n_down = IF row.y < 0 THEN @ + 1 ELSE @,
                             !.cells[k].sum_tau_ms = @ + row.tau_ms]
    IN accumulate_batch_FlatUp(h1, Tail(batch))

\* HistogramBuilder::accumulate_batch.  A row is [null, x, y, tau_ms], null
\* when one of the six required columns is null at the row.
RECURSIVE accumulate_batch(_, _)
accumulate_batch(h, batch) ==
  IF batch = <<>> THEN h
  ELSE
    LET row == Head(batch)
        k == cell_index(row.x)
        h1 == IF row.null THEN h
              ELSE [h EXCEPT !.cells[k].n = @ + 1,
                             !.cells[k].n_up = IF row.y > 0 THEN @ + 1 ELSE @,
                             !.cells[k].n_down =
                               IF row.y > 0 THEN @ ELSE IF row.y < 0 THEN @ + 1 ELSE @,
                             !.cells[k].sum_tau_ms = @ + row.tau_ms]
    IN accumulate_batch(h1, Tail(batch))

\* ---- the builder's input: event rows over three tick states, two of them
\* in one cell, with y in {-1, 0, 1}
TickState(I, s, age, last) ==
  [imbalance |-> I, spread |-> s, age_diff_ms |-> age, last_move |-> last]
HistStates ==
  {TickState(Rat(1, 2), 2, 0, 1), TickState(Rat(2, 1), 1, 0 - 50, 1),
   TickState(Rat(0 - 1, 10), 5, 300, 0)}
HistTau(x) == IF x.spread = 2 THEN 10 ELSE IF x.spread = 1 THEN 30 ELSE 5
HistRow(x, y, nl) == [null |-> nl, x |-> x, y |-> y, tau_ms |-> HistTau(x)]
HistRows ==
  {HistRow(x, y, FALSE) : x \in HistStates, y \in {0 - 1, 0, 1}}
    \cup {HistRow(TickState(Rat(1, 2), 2, 0, 1), 1, TRUE)}
\* record batches of one row: the loop carries nothing from row to row
HistBatches == {<<r>> : r \in HistRows}
HistAlphas == {Rat(1, 2), Rat(1, 1)}

\* accumulate_year: the next record batch of the events file
HistAccumulate ==
  /\ hist.pc = "accumulate"
  /\ \E batch \in HistBatches :
       /\ hist.rows + Len(batch) <= MaxHistRows
       /\ hist' = [accumulate_batch(hist, batch) EXCEPT
                     !.rows = @ + Len(batch), !.batch = batch]
  /\ UNCHANGED <<incVars, aggVars, tq, pnl, den, evb, bt, lookup, inAcc, pq, pool, rth>>

(***************************************************************************)
(* Backtester: RunForYear over an events file, ProcessEvent per pair of    *)
(* adjacent events.  Prices, spreads, fees and slippage are in half cents; *)
(* returns are rationals.  The aggregator pnl holds sums of returns in     *)
(* units of 1 / RetScale.                                                  *)
(***************************************************************************)
MaxBtEvents == 3       \* rows of the events file

\* StrategyConfig
StrategyConfig(mode, bps, minAbs, maxWait, fee, slip) ==
  [fee_price |-> fee, slip_price |-> slip, min_abs_direction_score |-> minAbs,
   min_expected_edge_bps |-> bps, max_mean_wait_ms |-> maxWait, edge_mode |-> mode]

\* TradeRecord trade{}
TradeRecord0 ==
  [ts_in |-> TsZero, ts_out |-> TsZero, day |-> 0, mid_in |-> 0, mid_out |-> 0,
   spread_in |-> 0, direction_score |-> RatZero, expected_edge_ret |-> RatZero,
   cost_ret |-> RatZero, gross_ret |-> RatZero, net_ret |-> RatZero, side |-> 0]

\* the backtester after construction; trades are the records handed to
\* pnl_.OnTrade, events counts the rows read, last is the last call of
\* ProcessEvent: its event, its next_event (has_next FALSE for nullptr) and
\* whether it handed a trade to the aggregator; row_groups is the events
\* file of RunForYear, the number of rows of each of its row groups
Bt0 ==
  [cfg |-> StrategyConfig("CostWithGate", 0, RatZero, 0, 6, 4),
   row_groups |-> <<>>,
   prev_ev |-> LabeledEvent0, has_prev |-> FALSE, events |-> 0, calls |-> 0,
   trades |-> <<>>,
   last |-> [ev |-> LabeledEvent0, has_next |-> FALSE, next_event |-> LabeledEvent0,
             traded |-> FALSE],
   pc |-> "idle"]

\* RunForYear: next_ptr = (ev.day == prev_ev.day) ? &ev : nullptr
NextPtr(prev_ev, ev) == ev.day = prev_ev.day

\* the magnitude gate of ProcessEvent: TRUE when the event is let through
MagnitudeGate(cfg, D) ==
  ~(RatLt(RatZero, cfg.min_abs_direction_score)
      /\ RatLt(RatAbs(D), cfg.min_abs_direction_score))

\* a mutant of compute_costs: the fee of one leg only
compute_costs_OneLeg(cfg, ev) ==
  LET c_spread == RatNorm(ev.spread, ev.mid)
      c_fee == RatNorm(cfg.fee_price, ev.mid)
      c_slip == RatNorm(cfg.slip_price, ev.mid)
  IN [c_spread |-> c_spread, c_fee |-> c_fee, c_slip |-> c_slip,
      cost_ret |-> RatAdd(RatAdd(c_spread, c_fee), c_slip)]

\* the compute_costs lambda of ProcessEvent
compute_costs(cfg, ev) ==
  LET c_spread == RatNorm(ev.spread, ev.mid)
      c_fee == RatNorm(2 * cfg.fee_price, ev.mid)
      c_slip == RatNorm(cfg.slip_price, ev.mid)
  IN [c_spread |-> c_spread, c_fee |-> c_fee, c_slip |-> c_slip,
      cost_ret |-> RatAdd(RatAdd(c_spread, c_fee), c_slip)]

\* costs initialized to zero so Legacy mode can keep them off
NoCosts ==
  [c_spread |-> RatZero, c_fee |-> RatZero, c_slip |-> RatZero, cost_ret |-> RatZero]

\* a mutant of EdgeModeSwitch: Legacy without its gate on the expected edge
EdgeModeSwitch_LegacyNoGate(cfg, ev, expected_edge_ret) ==
  IF cfg.edge_mode = "Legacy" THEN [pass |-> TRUE, costs |-> NoCosts]
  ELSE IF cfg.edge_mode = "CostTradeAll"
  THEN [pass |-> TRUE, costs |-> compute_costs(cfg, ev)]
  ELSE LET costs == compute_costs(cfg, ev)
           margin_ret == RatNorm(cfg.min_expected_edge_bps, 10000)
           cost_ret_gate == RatAdd(costs.c_fee, costs.c_slip)
           edge_ret_mag == RatAbs(expected_edge_ret)
       IN [pass |-> ~(cfg.min_expected_edge_bps > 0
                        /\ RatLe(edge_ret_mag, RatAdd(cost_ret_gate, margin_ret))),
           costs |-> costs]

\* a mutant of EdgeModeSwitch: Legacy gating on the size of the expected edge
EdgeModeSwitch_LegacyAbs(cfg, ev, expected_edge_ret) ==
  IF cfg.edge_mode = "Legacy"
  THEN [pass |-> ~RatLe(RatAbs(expected_edge_ret), RatZero), costs |-> NoCosts]
  ELSE IF cfg.edge_mode = "CostTradeAll"
  THEN [pass |-> TRUE, costs |-> compute_costs(cfg, ev)]
  ELSE LET costs == compute_costs(cfg, ev)
           margin_ret == RatNorm(cfg.min_expected_edge_bps, 10000)
           cost_ret_gate == RatAdd(costs.c_fee, costs.c_slip)
           edge_ret_mag == RatAbs(expected_edge_ret)
       IN [pass |-> ~(cfg.min_expected_edge_bps > 0
                        /\ RatLe(edge_ret_mag, RatAdd(cost_ret_gate, margin_ret))),
           costs |-> costs]

\* a mutant of EdgeModeSwitch: an edge equal to the gate's bound is let through
EdgeModeSwitch_EqualPasses(cfg, ev, expected_edge_ret) ==
  IF cfg.edge_mode = "Legacy"
  THEN [pass |-> ~RatLe(expected_edge_ret, RatZero), costs |-> NoCosts]
  ELSE IF cfg.edge_mode = "CostTradeAll"
  THEN [pass |-> TRUE, costs |-> compute_costs(cfg, ev)]
  ELSE LET costs == compute_costs(cfg, ev)
           margin_ret == RatNorm(cfg.min_expected_edge_bps, 10000)
           cost_ret_gate == RatAdd(costs.c_fee, costs.c_slip)
           edge_ret_mag == RatAbs(expected_edge_ret)
       IN [pass |-> ~(cfg.min_expected_edge_bps > 0
                        /\ RatLt(edge_ret_mag, RatAdd(cost_ret_gate, margin_ret))),
           costs |-> costs]

\* the edge-mode switch of ProcessEvent: whether the event is let through,
\* and the costs the mode charges
EdgeModeSwitch(cfg, ev, expected_edge_ret) ==
  IF cfg.edge_mode = "Legacy"
  THEN [pass |-> ~RatLe(expected_edge_ret, RatZero), costs |-> NoCosts]
  ELSE IF cfg.edge_mode = "CostTradeAll"
  THEN [pass |-> TRUE, costs |-> compute_costs(cfg, ev)]
  ELSE LET costs == compute_costs(cfg, ev)
           margin_ret == RatNorm(cfg.min_expected_edge_bps, 10000)
           cost_ret_gate == RatAdd(costs.c_fee, costs.c_slip)
           edge_ret_mag == RatAbs(expected_edge_ret)
       IN [pass |-> ~(cfg.min_expected_edge_bps > 0
                        /\ RatLe(edge_ret_mag, RatAdd(cost_ret_gate, margin_ret))),
           costs |-> costs]

\* the wait-time filter of ProcessEvent: TRUE when the event is let through
WaitGate(cfg, h, k) ==
  ~(cfg.max_mean_wait_ms > 0
      /\ RatLt(RatOfInt(cfg.max_mean_wait_ms), mean_tau_ms(h, k)))

\* Backtester::ProcessEvent: the trade handed to pnl_.OnTrade, if any
ProcessEvent(cfg, h, ev, has_next, next_event) ==
  LET none == [traded |-> FALSE, trade |-> TradeRecord0]
  IN IF ~has_next THEN none
     ELSE IF ev.mid <= 0 \/ ev.spread <= 0 THEN none
     ELSE
       LET k == cell_index(TickState(ev.imbalance, ev.spread, ev.age_diff_ms,
                                     ev.last_move))
           D == direction_score(h, k)
           delta_m == Rat(ev.spread, 2)
           expected_edge_ret == RatMul(D, RatDiv(delta_m, RatOfInt(ev.mid)))
           sw == EdgeModeSwitch(cfg, ev, expected_edge_ret)
           side == IF RatLt(RatZero, D) THEN 1 ELSE 0 - 1
           gross_ret == RatMul(RatOfInt(side), RatNorm(next_event.mid - ev.mid, ev.mid))
           net_ret == RatSub(gross_ret, sw.costs.cost_ret)
       IN IF ~MagnitudeGate(cfg, D) THEN none
          ELSE IF ~sw.pass THEN none
          ELSE IF ~WaitGate(cfg, h, k) THEN none
          ELSE [traded |-> TRUE,
                trade |-> [ts_in |-> ev.ts, ts_out |-> next_event.ts, day |-> ev.day,
                           mid_in |-> ev.mid, mid_out |-> next_event.mid,
                           spread_in |-> ev.spread, direction_score |-> D,
                           expected_edge_ret |-> expected_edge_ret,
                           cost_ret |-> sw.costs.cost_ret, gross_ret |-> gross_ret,
                           net_ret |-> net_ret, side |-> side]]

\* ---- the older ProcessEvent, with an integer edge_mode
\* enum class EdgeMode { Legacy = 0, CostTradeAll = 1, CostWithGate = 2 }
EdgeModeInt(mode) ==
  IF mode = "Legacy" THEN 0 ELSE IF mode = "CostTradeAll" THEN 1 ELSE 2

\* the older magnitude gate: `if (abs(direction_score) < min_abs) return`
MagnitudeGateOld(cfg, D) == ~RatLt(RatAbs(D), cfg.min_abs_direction_score)

\* a mutant of EdgeModeIfElse: the expected-edge gate in mode 1 as well
EdgeModeIfElse_GateAll(cfg, ev, expected_edge_ret) ==
  IF cfg.edge_mode = 0
  THEN [pass |-> ~RatLe(expected_edge_ret, RatZero), costs |-> NoCosts]
  ELSE LET costs == compute_costs(cfg, ev)
           margin_ret == RatNorm(cfg.min_expected_edge_bps, 10000)
           cost_ret_gate == RatAdd(costs.c_fee, costs.c_slip)
           edge_ret_mag == RatAbs(expected_edge_ret)
       IN [pass |-> ~(cfg.min_expected_edge_bps > 0
                        /\ RatLe(edge_ret_mag, RatAdd(cost_ret_gate, margin_ret))),
           costs |-> costs]

\* the older edge-mode if/else: `if (edge_mode == 0) {...} else {costs;
\* if (edge_mode == 2 && min_expected_edge_bps > 0) {...}}`
EdgeModeIfElse(cfg, ev, expected_edge_ret) ==
  IF cfg.edge_mode = 0
  THEN [pass |-> ~RatLe(expected_edge_ret, RatZero), costs |-> NoCosts]
  ELSE LET costs == compute_costs(cfg, ev)
           margin_ret == RatNorm(cfg.min_expected_edge_bps, 10000)
           cost_ret_gate == RatAdd(costs.c_fee, costs.c_slip)
           edge_ret_mag == RatAbs(expected_edge_ret)
       IN [pass |-> ~(cfg.edge_mode = 2 /\ cfg.min_expected_edge_bps > 0
                        /\ RatLe(edge_ret_mag, RatAdd(cost_ret_gate, margin_ret))),
           costs |-> costs]

\* the older Backtester::ProcessEvent; cfg.edge_mode is an int
ProcessEventOld(cfg, h, ev, has_next, next_event) ==
  LET none == [traded |-> FALSE, trade |-> TradeRecord0]
  IN IF ~has_next THEN none
     ELSE IF ev.mid <= 0 \/ ev.spread <= 0 THEN none
     ELSE
       LET k == cell_index(TickState(ev.imbalance, ev.spread, ev.age_diff_ms,
                                     ev.last_move))
           D == direction_score(h, k)
           delta_m == Rat(ev.spread, 2)
           expected_edge_ret == RatMul(D, RatDiv(delta_m, RatOfInt(ev.mid)))
           sw == EdgeModeIfElse(cfg, ev, expected_edge_ret)
           side == IF RatLt(RatZero, D) THEN 1 ELSE 0 - 1
           gross_ret == RatMul(RatOfInt(side), RatNorm(next_event.mid - ev.mid, ev.mid))
           net_ret == RatSub(gross_ret, sw.costs.cost_ret)
       IN IF ~MagnitudeGateOld(cfg, D) THEN none
          ELSE IF ~sw.pass THEN none
          ELSE IF ~WaitGate(cfg, h, k) THEN none
          ELSE [traded |-> TRUE,
                trade |-> [ts_in |-> ev.ts, ts_out |-> next_event.ts, day |-> ev.day,
                           mid_in |-> ev.mid, mid_out |-> next_event.mid,
                           spread_in |-> ev.spread, direction_score |-> D,
                           expected_edge_ret |-> expected_edge_ret,
                           cost_ret |-> sw.costs.cost_ret, gross_ret |-> gross_ret,
                           net_ret |-> net_ret, side |-> side]]

\* ---- the backtester's inputs
\* (mid, spread, imbalance) of an event: one per cell of BtHist, and two
\* rows of bad data
BtKinds ==
  {<<100, 20, Rat(1, 2)>>, <<200, 40, Rat(0 - 1, 2)>>, <<100, 36, RatZero>>,
   <<100, 20, Rat(1, 5)>>, <<100, 20, Rat(0 - 1, 5)>>,
   <<0, 20, Rat(1, 2)>>, <<100, 0, Rat(1, 2)>>}
\* the least common multiple of the positive mids of BtKinds: every return
\* of a trade is a whole number of units of 1 / RetScale
RECURSIVE LcmOf(_)
LcmOf(S) ==
  IF S = {} THEN 1
  ELSE LET m == CHOOSE x \in S : TRUE
           r == LcmOf(S \ {m})
       IN (m \div Gcd(m, r)) * r
RetScale == LcmOf({kind[1] : kind \in {q \in BtKinds : q[1] > 0}})
\* the trade as the aggregator sums it: returns in units of 1 / RetScale
PnlTrade(trade) ==
  [day |-> trade.day,
   gross_ret |-> (trade.gross_ret.num * RetScale) \div trade.gross_ret.den,
   net_ret |-> (trade.net_ret.num * RetScale) \div trade.net_ret.den]

\* the histogram the backtester loads: built from two up moves (cell of
\* imbalance 1/2), two down moves (-1/2), three up and one down (0), two
\* slow up moves (-1/5); the cell of imbalance 1/5 is empty
BtHistRow(I, s, y, tau) ==
  [null |-> FALSE, x |-> TickState(I, s, 0, 0), y |-> y, tau_ms |-> tau]
BtBuilt ==
  accumulate_batch(Hist0,
    <<BtHistRow(Rat(1, 2), 20, 1, 10), BtHistRow(Rat(1, 2), 20, 1, 10),
      BtHistRow(Rat(0 - 1, 2), 40, 0 - 1, 30), BtHistRow(Rat(0 - 1, 2), 40, 0 - 1, 30),
      BtHistRow(RatZero, 36, 1, 10), BtHistRow(RatZero, 36, 1, 10),
      BtHistRow(RatZero, 36, 1, 10), BtHistRow(RatZero, 36, 0 - 1, 10),
      BtHistRow(Rat(0 - 1, 5), 20, 1, 50), BtHistRow(Rat(0 - 1, 5), 20, 1, 50)>>)

\* finalize_and_write_json: alpha and the cell records of the model file;
\* mean_tau_ms is the cell's mean, tau_fallback for an empty cell.  The
\* file is written at setprecision(10), which writes a whole number below
\* 10^10, so every sum of waiting times here, digit for digit.
finalize_and_write_json(h) ==
  LET fallback == tau_fallback(h)
  IN [alpha |-> h.alpha,
      cells |-> [k \in 0..(N_CELLS - 1) |->
        [idx |-> k, n |-> h.cells[k].n, n_up |-> h.cells[k].n_up,
         n_down |-> h.cells[k].n_down,
         sum_tau_ms |-> h.cells[k].sum_tau_ms,
         mean_tau_ms |-> IF RatIsNaN(mean_tau_ms(h, k)) THEN fallback
                         ELSE mean_tau_ms(h, k)]]]

\* HistogramModel::HistogramModel(json_path): alpha, and n, n_up, n_down
\* and sum_tau_ms of each cell record; the other keys are not read
HistogramModel_load(j) ==
  [Hist0 EXCEPT !.alpha = j.alpha,
                !.cells = [k \in 0..(N_CELLS - 1) |->
                  [n |-> j.cells[k].n, n_up |-> j.cells[k].n_up,
                   n_down |-> j.cells[k].n_down,
                   sum_tau_ms |-> j.cells[k].sum_tau_ms]]]

\* the model file, and the model the backtester loads from it
BtJson == finalize_and_write_json(BtBuilt)
BtHist == HistogramModel_load(BtJson)
\* the mean the model file gives an empty cell
BtFallback == tau_fallback(BtBuilt)

\* the file is in timestamp order: an event is of the day of the one before
\* it or of the next day, 7 ms after it in the day's clock
BtDays(b) ==
  IF ~b.has_prev THEN {Day1}
  ELSE {b.prev_ev.day} \cup (IF b.prev_ev.day = Day1 THEN {Day2} ELSE {})
BtEvent(i, d, kind) ==
  [LabeledEvent0 EXCEPT !.ts = FromMs(d, 36000000 + 7 * i), !.day = d,
                        !.mid = kind[1], !.spread = kind[2], !.imbalance = kind[3]]
BtConfigs ==
  {StrategyConfig(mode, bps, minAbs, maxWait, 1, 2) :
     mode \in {"Legacy", "CostTradeAll", "CostWithGate"}, bps \in {0, 100},
     minAbs \in {RatZero, Rat(1, 2)}, maxWait \in {0, 20}}

\* configurations for comparing the two ProcessEvent: every edge mode, the
\* magnitude threshold negative, zero and positive, the wait gate on
BtEqConfigs ==
  {StrategyConfig(mode, bps, minAbs, 20, 1, 2) :
     mode \in {"Legacy", "CostTradeAll", "CostWithGate"}, bps \in {0, 100},
     minAbs \in {Rat(0 - 1, 2), RatZero, Rat(1, 2)}}

\* ---- the events file and its stream
\* EventWriter: flush_batch hands the rows to WriteRecordBatch when BATCH
\* (1,000,000) rows are buffered and at close(), and returns at once when
\* none is buffered.  A file of no event has no row group; a file of up to
\* BATCH events, as every file of this model, has its rows in one.
EventWriter_row_groups(n) == IF n = 0 THEN <<>> ELSE <<n>>

\* the rows of the row groups listed, in the order listed
RECURSIVE RowsOfGroups(_, _, _)
RowsOfGroups(row_groups, indices, k) ==
  IF k > Len(indices) THEN 0
  ELSE row_groups[indices[k] + 1] + RowsOfGroups(row_groups, indices, k + 1)
\* the rows of the file
RECURSIVE RowsOfFile(_, _)
RowsOfFile(row_groups, g) ==
  IF g > Len(row_groups) THEN 0 ELSE row_groups[g] + RowsOfFile(row_groups, g + 1)

\* LabeledEventStream::LabeledEventStream: col_indices holds the positions
\* of ts, date, mid, mid_next, spread, imbalance, age_diff_ms, last_move, y
\* and tau_ms in the schema of the file, 0..9 in the schema EventWriter
\* declares.  reader_->GetRecordBatchReader(col_indices) has one argument,
\* the list of the ROW GROUPS to read, every column of them: it fails,
\* and the constructor throws, unless each index is a row group of the
\* file; the stream then delivers the rows of row groups 0..9, in that
\* order, and no row of a later row group.
LabeledEventStream(row_groups) ==
  [ok |-> \A c \in 0..9 : c < Len(row_groups),
   rows |-> IF \A c \in 0..9 : c < Len(row_groups)
            THEN RowsOfGroups(row_groups, [k \in 1..10 |-> k - 1], 1) ELSE 0]

\* a file of k row groups with rows in the first and in the last only
BtRowGroups(k, first, last) ==
  [g \in 1..k |-> IF g = k THEN last ELSE IF g = 1 THEN first ELSE 0]
\* the events files of RunForYear, by the rows of their row groups: the
\* files as EventWriter lays them out (no row group, or one), files of ten
\* row groups with the rows in the tenth, and files of eleven with one row
\* in the eleventh
BtFiles ==
  {EventWriter_row_groups(n) : n \in 0..MaxBtEvents}
    \cup {BtRowGroups(10, 0, n) : n \in 0..MaxBtEvents}
    \cup {BtRowGroups(11, n, 1) : n \in 0..(MaxBtEvents - 1)}

\* RunForYear: pnl_.StartYear(year) and the construction of the stream,
\* which throws out of RunForYear when the batch reader cannot be made
BtStartYear ==
  /\ bt.pc = "new"
  /\ pnl' = StartYearOp(pnl, 2023)
  /\ bt' = [bt EXCEPT !.pc = IF LabeledEventStream(bt.row_groups).ok
                                THEN "stream" ELSE "threw"]
  /\ UNCHANGED <<incVars, aggVars, tq, den, evb, hist, lookup, inAcc, pq, pool, rth>>

\* RunForYear: one turn of while (stream.next(ev))
BtNextEvent ==
  /\ bt.pc = "stream"
  /\ bt.events < LabeledEventStream(bt.row_groups).rows
  /\ \E d \in BtDays(bt) : \E kind \in BtKinds :
       LET ev == BtEvent(bt.events, d, kind)
           has_next == NextPtr(bt.prev_ev, ev)
           r == ProcessEvent(bt.cfg, hist, bt.prev_ev, has_next, ev)
       IN IF bt.has_prev
          THEN /\ pnl' = IF r.traded THEN OnTradeOp(pnl, PnlTrade(r.trade)) ELSE pnl
               /\ bt' = [bt EXCEPT !.prev_ev = ev, !.events = @ + 1, !.calls = @ + 1,
                           !.trades = IF r.traded THEN Append(@, r.trade) ELSE @,
                           !.last = [ev |-> bt.prev_ev, has_next |-> has_next,
                                     next_event |-> ev, traded |-> r.traded]]
          ELSE /\ pnl' = pnl
               /\ bt' = [bt EXCEPT !.prev_ev = ev, !.has_prev = TRUE, !.events = @ + 1]
  /\ UNCHANGED <<incVars, aggVars, tq, den, evb, hist, lookup, inAcc, pq, pool, rth>>

\* RunForYear: the stream is at its end, pnl_.FinalizeYear()
BtFinalizeYear ==
  /\ bt.pc = "stream"
  /\ bt.events = LabeledEventStream(bt.row_groups).rows
  /\ pnl' = FinalizeYearOp(pnl)
  /\ bt' = [bt EXCEPT !.pc = "done"]
  /\ UNCHANGED <<incVars, aggVars, tq, den, evb, hist, lookup, inAcc, pq, pool, rth>>

(***************************************************************************)
(* The events file from the builder to the backtester: the builder writes  *)
(* its labeled events, the histogram is built from that file, and          *)
(* RunForYear is run on it: it reads a file of ten row groups or more pair *)
(* by pair and throws on any other.  The file holds dollars; the builder   *)
(* counts them in half dollars and the backtester in half cents, 100 to    *)
(* the half dollar.                                                        *)
(***************************************************************************)
MaxFileRows == 5       \* ticks of the builder's input

\* an event of the builder as LabeledEventStream::next hands it over
FileEvent(e) ==
  [e EXCEPT !.mid = 100 * @, !.mid_next = 100 * @, !.spread = 100 * @]
\* the rows the histogram builder accumulates from the file
FileHistRows(written) ==
  [i \in 1..Len(written) |->
     [null |-> FALSE,
      x |-> TickState(written[i].imbalance, 100 * written[i].spread,
                      written[i].age_diff_ms, written[i].last_move),
      y |-> written[i].y, tau_ms |-> written[i].tau_ms]]
\* every return of a trade on these mids is a whole number of units of
\* 1 / FileRetScale
FileRetScale == LcmOf({100 * ((q[1] + q[2]) \div 2) : q \in EvQuotes})
PnlTradeFile(trade) ==
  [day |-> trade.day,
   gross_ret |-> trade.gross_ret.num * (FileRetScale \div trade.gross_ret.den),
   net_ret |-> trade.net_ret.num * (FileRetScale \div trade.net_ret.den)]

\* the log_return column as stage A fills it: null on the first tick of a
\* day, log(mid / previous mid) after it
FileLogReturn(b, t, mid) ==
  IF b.rows = <<>> \/ b.rows[Len(b.rows)].ts.day # t.day THEN NaN
  ELSE Log(mid, b.rows[Len(b.rows)].mid)
FileNextTimes(t) ==
  IF t = TsZero THEN {Anchor1}
  ELSE { FromMs(t.day, ms_since_midnight(t) + 7) }
         \cup (IF t.day = Day1 THEN {Anchor2} ELSE {})
FileConfigs ==
  {StrategyConfig(mode, 0, RatZero, 0, 1, 2) : mode \in {"Legacy", "CostTradeAll"}}

\* process_stream: the next tick goes through process_row
FileRead ==
  /\ evb.pc = "stream"
  /\ Len(evb.rows) < MaxFileRows
  /\ \E t \in FileNextTimes(EvLastTs(evb)) : \E q \in EvQuotes :
       LET lr == FileLogReturn(evb, t, (q[1] + q[2]) \div 2)
       IN evb' = process_row(evb, EvTick(t, q[1], q[2], ~isfinite(lr),
                                         IF isfinite(lr) THEN lr ELSE ZeroLr, FALSE))
  /\ UNCHANGED <<incVars, aggVars, tq, pnl, den, hist, bt, lookup, inAcc, pq, pool, rth>>

\* the histogram built from the file and loaded, then RunForYear on the
\* file as the builder's EventWriter laid it out: pnl_.StartYear(year) and
\* the construction of the stream, which throws out of RunForYear when the
\* batch reader cannot be made
FileStartYear ==
  /\ evb.pc = "done" /\ bt.pc = "new"
  /\ hist' = HistogramModel_load(finalize_and_write_json(
                accumulate_batch(Hist0, FileHistRows(evb.written))))
  /\ pnl' = StartYearOp(pnl, 2024)
  /\ bt' = [bt EXCEPT
       !.row_groups = EventWriter_row_groups(Len(evb.written)),
       !.pc = IF LabeledEventStream(EventWriter_row_groups(Len(evb.written))).ok
              THEN "stream" ELSE "threw"]
  /\ UNCHANGED <<incVars, aggVars, tq, den, evb, lookup, inAcc, pq, pool, rth>>

\* RunForYear: one turn of while (stream.next(ev))
FileNextEvent ==
  /\ bt.pc = "stream"
  /\ bt.events < LabeledEventStream(bt.row_groups).rows
  /\ LET ev == FileEvent(evb.written[bt.events + 1])
         has_next == NextPtr(bt.prev_ev, ev)
         r == ProcessEvent(bt.cfg, hist, bt.prev_ev, has_next, ev)
     IN IF bt.has_prev
        THEN /\ pnl' = IF r.traded THEN OnTradeOp(pnl, PnlTradeFile(r.trade)) ELSE pnl
             /\ bt' = [bt EXCEPT !.prev_ev = ev, !.events = @ + 1, !.calls = @ + 1,
                         !.trades = IF r.traded THEN Append(@, r.trade) ELSE @,
                         !.last = [ev |-> bt.prev_ev, has_next |-> has_next,
                                   next_event |-> ev, traded |-> r.traded]]
        ELSE /\ pnl' = pnl
             /\ bt' = [bt EXCEPT !.prev_ev = ev, !.has_prev = TRUE, !.events = @ + 1]
  /\ UNCHANGED <<incVars, aggVars, tq, den, evb, hist, lookup, inAcc, pq, pool, rth>>

\* RunForYear: stream.next fails at the end of the file, pnl_.FinalizeYear()
FileFinalizeYear ==
  /\ bt.pc = "stream"
  /\ bt.events = LabeledEventStream(bt.row_groups).rows
  /\ pnl' = FinalizeYearOp(pnl)
  /\ bt' = [bt EXCEPT !.pc = "done"]
  /\ UNCHANGED <<incVars, aggVars, tq, den, evb, hist, lookup, inAcc, pq, pool, rth>>

(***************************************************************************)
(* Bin lookups of the HistogramModel, hard-coded bins and the configurable *)
(* bins at their defaults, over a grid of tick states.                     *)
(***************************************************************************)
MaxImbDen == 10        \* imbalances are n / d, d in 1..MaxImbDen,
MaxImbNum == 12        \*   n in -MaxImbNum..MaxImbNum
MaxSpreadHc == 7       \* spreads are 0..MaxSpreadHc half cents

\* make_default_histogram_bins: the imbalance bins
DefaultImbBins ==
  <<[lo |-> Rat(0 - 1, 1), hi |-> Rat(0 - 7, 10), lo_inclusive |-> TRUE, hi_inclusive |-> FALSE],
    [lo |-> Rat(0 - 7, 10), hi |-> Rat(0 - 3, 10), lo_inclusive |-> TRUE, hi_inclusive |-> FALSE],
    [lo |-> Rat(0 - 3, 10), hi |-> Rat(0 - 1, 10), lo_inclusive |-> TRUE, hi_inclusive |-> FALSE],
    [lo |-> Rat(0 - 1, 10), hi |-> Rat(1, 10), lo_inclusive |-> TRUE, hi_inclusive |-> TRUE],
    [lo |-> Rat(1, 10), hi |-> Rat(3, 10), lo_inclusive |-> FALSE, hi_inclusive |-> TRUE],
    [lo |-> Rat(3, 10), hi |-> Rat(1, 1), lo_inclusive |-> FALSE, hi_inclusive |-> TRUE]>>

\* HistogramModel::imb_bin over configurable bins: the first bin that holds
\* the clamped value, the last bin if none does; bins are numbered from 0
imb_bin_cfg(bins, I) ==
  LET I1 == IF RatLt(I, RatOfInt(0 - 1)) THEN RatOfInt(0 - 1) ELSE I
      I2 == IF RatLt(RatOfInt(1), I1) THEN RatOfInt(1) ELSE I1
      ok(b) ==
        /\ IF bins[b + 1].lo_inclusive THEN RatLe(bins[b + 1].lo, I2)
                                       ELSE RatLt(bins[b + 1].lo, I2)
        /\ IF bins[b + 1].hi_inclusive THEN RatLe(I2, bins[b + 1].hi)
                                       ELSE RatLt(I2, bins[b + 1].hi)
      hits == {b \in 0..(N_IMB - 1) : ok(b)}
  IN IF hits # {} THEN CHOOSE b \in hits : \A c \in hits : b <= c ELSE N_IMB - 1

\* make_default_histogram_bins: the spread bins, in ticks
DefaultSprBins ==
  <<[ticks_min |-> 0, ticks_max |-> 1, max_is_inf |-> FALSE],
    [ticks_min |-> 2, ticks_max |-> 2, max_is_inf |-> FALSE],
    [ticks_min |-> 3, ticks_max |-> 0, max_is_inf |-> TRUE]>>

AgeBin(lo, hi, lo_inf, hi_inf, lo_inc, hi_inc) ==
  [lo |-> lo, hi |-> hi, lo_is_inf |-> lo_inf, hi_is_inf |-> hi_inf,
   lo_inclusive |-> lo_inc, hi_inclusive |-> hi_inc]

\* age bins whose second bin is closed on the right
DefaultAgeBins_ClosedRight ==
  <<AgeBin(0, 0 - 200, TRUE, FALSE, FALSE, FALSE),
    AgeBin(0 - 200, 0 - 50, FALSE, FALSE, TRUE, TRUE),
    AgeBin(0 - 50, 50, FALSE, FALSE, TRUE, TRUE),
    AgeBin(50, 200, FALSE, FALSE, FALSE, TRUE),
    AgeBin(200, 0, FALSE, TRUE, FALSE, FALSE)>>

\* make_default_histogram_bins: the age-diff bins, in milliseconds
DefaultAgeBins ==
  <<AgeBin(0, 0 - 200, TRUE, FALSE, FALSE, FALSE),
    AgeBin(0 - 200, 0 - 50, FALSE, FALSE, TRUE, FALSE),
    AgeBin(0 - 50, 50, FALSE, FALSE, TRUE, TRUE),
    AgeBin(50, 200, FALSE, FALSE, FALSE, TRUE),
    AgeBin(200, 0, FALSE, TRUE, FALSE, FALSE)>>

\* make_default_histogram_bins: the last-move thresholds -0.5 and 0.5
DefaultLastBins == [down_cut |-> Rat(0 - 1, 2), up_cut |-> Rat(1, 2)]

\* HistogramBinSpec as make_default_histogram_bins returns it
DefaultBins ==
  [imb |-> DefaultImbBins, spr |-> DefaultSprBins, age |-> DefaultAgeBins,
   last |-> DefaultLastBins]

\* HistogramModel::spr_bin over configurable bins; the spread is in half
\* cents, k its llround in ticks of one cent
spr_bin_cfg(bins, spread) ==
  IF spread <= 0 THEN 0
  ELSE LET k == (spread + 1) \div 2
           ok(b) == /\ ~(k < bins[b + 1].ticks_min)
                    /\ ~(~bins[b + 1].max_is_inf /\ k > bins[b + 1].ticks_max)
           hits == {b \in 0..(N_SPR - 1) : ok(b)}
       IN IF hits # {} THEN CHOOSE b \in hits : \A c \in hits : b <= c
          ELSE N_SPR - 1

\* HistogramModel::age_bin over configurable bins
age_bin_cfg(bins, age_diff_ms) ==
  LET ok_lo(b) == IF bins[b + 1].lo_is_inf THEN TRUE
                  ELSE IF bins[b + 1].lo_inclusive THEN age_diff_ms >= bins[b + 1].lo
                  ELSE age_diff_ms > bins[b + 1].lo
      ok_hi(b) == IF bins[b + 1].hi_is_inf THEN TRUE
                  ELSE IF bins[b + 1].hi_inclusive THEN age_diff_ms <= bins[b + 1].hi
                  ELSE age_diff_ms < bins[b + 1].hi
      hits == {b \in 0..(N_AGE - 1) : ok_lo(b) /\ ok_hi(b)}
  IN IF hits # {} THEN CHOOSE b \in hits : \A c \in hits : b <= c ELSE N_AGE - 1

\* HistogramModel::last_bin over configurable cuts
last_bin_cfg(bins, last_move) ==
  IF RatLt(RatOfInt(last_move), bins.down_cut) THEN 0
  ELSE IF RatLt(bins.up_cut, RatOfInt(last_move)) THEN 2
  ELSE 1

\* HistogramModel::cell_index of the model with configurable bins
cell_index_cfg(bins, x) ==
  LET b_imb == imb_bin_cfg(bins.imb, x.imbalance)
      b_spr == spr_bin_cfg(bins.spr, x.spread)
      b_age == age_bin_cfg(bins.age, x.age_diff_ms)
      b_last == last_bin_cfg(bins.last, x.last_move)
  IN ((b_imb * N_SPR + b_spr) * N_AGE + b_age) * N_LAST + b_last

\* no lookup made yet
Lookup0 ==
  [x |-> TickState(RatZero, 0, 0, 0), k |-> 0, b_imb |-> 0, b_imb_cfg |-> 0,
   k_cfg |-> 0, pc |-> "idle"]

\* ---- the tick states looked up
LookupImbalances ==
  {Rat(n, d) : n \in (0 - MaxImbNum)..MaxImbNum, d \in 1..MaxImbDen}
LookupAges == {0 - 201, 0 - 200, 0 - 51, 0 - 50, 0, 50, 51, 200, 201}
LookupStates ==
  {TickState(I, s, age, last) : I \in LookupImbalances, s \in 0..MaxSpreadHc,
                                age \in LookupAges, last \in {0 - 1, 0, 1}}

\* cell_index(x) of a tick state, and its imbalance bin under both models
CellLookup ==
  /\ lookup.pc = "ready"
  /\ \E x \in LookupStates :
       lookup' = [x |-> x, k |-> cell_index(x), b_imb |-> imb_bin(x.imbalance),
                  b_imb_cfg |-> imb_bin_cfg(DefaultImbBins, x.imbalance),
                  k_cfg |-> cell_index_cfg(DefaultBins, x),
                  pc |-> "done"]
  /\ UNCHANGED <<incVars, aggVars, tq, pnl, den, evb, hist, bt, inAcc, pq, pool, rth>>

(***************************************************************************)
(* Pipeline::msbins_to_parquet_per_year and YearWriter.  A log return is   *)
(* NaNRow or FiniteRow(v) with v an integer; the cutoffs are integers on   *)
(* the same scale.  A YearWriter holds the rows already written to its     *)
(* file and the rows still in its builders.                                *)
(***************************************************************************)
MaxPqRows == 3         \* rows read from the msbin files
MaxLr == 2             \* finite log returns are -MaxLr..MaxLr

\* constexpr int64_t BATCH=2'000'000
BATCH == 2000000

PqNone == [pc |-> "idle"]

\* YearWriter as open_year returns it
YearWriter0(yr) ==
  [year |-> yr, file |-> <<>>, batch |-> <<>>, nrows_batch |-> 0,
   total_rows |-> 0, closed |-> 0]

\* YearWriter::flush_batch
flush_batch(yw) ==
  IF yw.nrows_batch = 0 THEN yw
  ELSE [yw EXCEPT !.file = @ \o yw.batch, !.batch = <<>>,
                  !.total_rows = @ + yw.nrows_batch, !.nrows_batch = 0]

\* YearWriter::close
YearWriter_close(yw) == [flush_batch(yw) EXCEPT !.closed = @ + 1]

\* get_writer that opens the year's file again on every row
get_writer_Reopen(p, yr) ==
  [p EXCEPT !.writers = [y \in DOMAIN @ \cup {yr} |->
                           IF y = yr THEN YearWriter0(yr) ELSE @[y]],
            !.opens = Append(@, yr)]

\* get_writer: the writer of yr, opened by open_year when the map has none
get_writer(p, yr) ==
  IF yr \in DOMAIN p.writers THEN p
  ELSE [p EXCEPT !.writers = [y \in DOMAIN @ \cup {yr} |->
                                IF y = yr THEN YearWriter0(yr) ELSE @[y]],
                 !.opens = Append(@, yr)]

\* the winsor policy that clips the lower tail only
Winsor_ClipLowOnly(S, cut_lo, cut_hi, r) ==
  IF S.winsorize /\ isfinite(r.logret)
  THEN IF S.winsor_clip
       THEN [keep |-> TRUE,
             row |-> IF r.logret.v < cut_lo
                     THEN [r EXCEPT !.logret = FiniteRow(cut_lo)] ELSE r]
       ELSE [keep |-> ~(r.logret.v < cut_lo \/ r.logret.v > cut_hi), row |-> r]
  ELSE [keep |-> TRUE, row |-> r]

\* the winsor policy on one row: whether the row goes on (no `continue`) and
\* the row as it goes on
Winsor(S, cut_lo, cut_hi, r) ==
  IF S.winsorize /\ isfinite(r.logret)
  THEN IF S.winsor_clip
       THEN [keep |-> TRUE,
             row |-> IF r.logret.v < cut_lo
                     THEN [r EXCEPT !.logret = FiniteRow(cut_lo)]
                     ELSE IF r.logret.v > cut_hi
                     THEN [r EXCEPT !.logret = FiniteRow(cut_hi)]
                     ELSE r]
       ELSE [keep |-> ~(r.logret.v < cut_lo \/ r.logret.v > cut_hi), row |-> r]
  ELSE [keep |-> TRUE, row |-> r]

\* the writer before the first row: settings, cutoffs, no writer open; input
\* is the rows read so far, opens the years open_year was called for
Pq0(S, lo, hi) ==
  [pc |-> "rows", S |-> S, cut_lo |-> lo, cut_hi |-> hi, input |-> <<>>,
   writers |-> <<>>, opens |-> <<>>]

\* --winsor-clip and --winsor-drop both set winsorize
PqSettings ==
  { [winsorize |-> FALSE, winsor_clip |-> FALSE],
    [winsorize |-> TRUE, winsor_clip |-> FALSE],
    [winsorize |-> TRUE, winsor_clip |-> TRUE] }
\* cutoffs: lower below upper, equal, lower above upper
PqCuts == { <<0 - 1, 1>>, <<0, 0>>, <<1, 0 - 1>> }
\* settings with cutoffs; without winsor the cutoffs are not read and one
\* pair stands for all
PqConfigs ==
  { cfg \in PqSettings \X PqCuts : cfg[1].winsorize \/ cfg[2][1] < cfg[2][2] }
\* the last trading day of 2023 and the first of 2024
PqDays == {20231229, 20240102}
\* the k-th row of the input: its mid is k
PqRows(k) ==
  { [Row0 EXCEPT !.ts = MakeTs(d, 10, 0, 0, k), !.mid = k, !.logret = lr] :
      d \in PqDays,
      lr \in {NaNRow} \cup { FiniteRow(v) : v \in (0 - MaxLr)..MaxLr } }

\* one pass of `while(in.read((char*)&r, sizeof(r)))`
PqRow ==
  /\ pq.pc = "rows"
  /\ Len(pq.input) < MaxPqRows
  /\ \E r \in PqRows(Len(pq.input) + 1) :
       LET w == Winsor(pq.S, pq.cut_lo, pq.cut_hi, r)
           yr == year_from_ts(w.row.ts)
           p1 == get_writer([pq EXCEPT !.input = Append(@, r)], yr)
           yw1 == [p1.writers[yr] EXCEPT !.batch = Append(@, w.row),
                                         !.nrows_batch = @ + 1]
           yw2 == IF yw1.nrows_batch >= BATCH THEN flush_batch(yw1) ELSE yw1
       IN pq' = IF ~w.keep THEN [pq EXCEPT !.input = Append(@, r)]
                ELSE [p1 EXCEPT !.writers[yr] = yw2]
  /\ UNCHANGED <<incVars, aggVars, tq, pnl, den, evb, hist, bt, lookup, inAcc, pool, rth>>

\* `for(auto& [yr, ptr] : writers) ptr->close(schema);`
PqCloseAll ==
  /\ pq.pc = "rows"
  /\ pq' = [pq EXCEPT !.pc = "closed",
                      !.writers = [y \in DOMAIN @ |-> YearWriter_close(@[y])]]
  /\ UNCHANGED <<incVars, aggVars, tq, pnl, den, evb, hist, bt, lookup, inAcc, pool, rth>>

(***************************************************************************)
(* The thread pools of Pipeline::run: parallel_csv_to_msbin or             *)
(* event_to_clock_ffill_parallel, then tail_quantiles_parallel when        *)
(* winsorizing, then the serial parquet writer.  The three pools share one *)
(* protocol: W threads run `while(true){ i = idx.fetch_add(1);             *)
(* if(i>=n) break; <work on shard i> }` and the caller joins them all.     *)
(* done[i] lists the workers that processed shard i; log keeps, for each   *)
(* pool, the workers still running and how many times its shards had been *)
(* processed when the next stage started.                                  *)
(***************************************************************************)
PoolNone == [pc |-> "idle"]

\* a pool as its stage creates it: idx{0}, W = max(1, S.workers) threads
Pool0(stage, n, workers, winsorize, log) ==
  [pc |-> "run", stage |-> stage, n |-> n, S_workers |-> workers,
   winsorize |-> winsorize, idx |-> 0,
   worker |-> [w \in 1..Max(1, workers) |-> [pc |-> "claim", i |-> 0]],
   done |-> [i \in 0..(n - 1) |-> <<>>], log |-> log]

\* size_t i = idx.fetch_add(1); if(i>=n) break;
PoolClaim(w) ==
  /\ pool.pc = "run"
  /\ pool.worker[w].pc = "claim"
  /\ pool' = [pool EXCEPT !.idx = @ + 1,
                          !.worker[w].i = pool.idx,
                          !.worker[w].pc = IF pool.idx >= pool.n
                                           THEN "done" ELSE "work"]
  /\ UNCHANGED <<incVars, aggVars, tq, pnl, den, evb, hist, bt, lookup, inAcc, pq, rth>>

\* the rest of the loop body: the worker processes shard i
PoolWork(w) ==
  /\ pool.pc = "run"
  /\ pool.worker[w].pc = "work"
  /\ pool' = [pool EXCEPT !.done[pool.worker[w].i] = Append(@, w),
                          !.worker[w].pc = "claim"]
  /\ UNCHANGED <<incVars, aggVars, tq, pnl, den, evb, hist, bt, lookup, inAcc, pq, rth>>

\* a join loop that returns while threads are still running
PoolJoin_Early ==
  /\ pool.pc = "run"
  /\ pool' = [pool EXCEPT !.pc = "joined"]
  /\ UNCHANGED <<incVars, aggVars, tq, pnl, den, evb, hist, bt, lookup, inAcc, pq, rth>>

\* for(auto& t: pool) t.join(); returns when every thread has left its loop
PoolJoin ==
  /\ pool.pc = "run"
  /\ \A w \in DOMAIN pool.worker : pool.worker[w].pc = "done"
  /\ pool' = [pool EXCEPT !.pc = "joined"]
  /\ UNCHANGED <<incVars, aggVars, tq, pnl, den, evb, hist, bt, lookup, inAcc, pq, rth>>

\* Pipeline::run goes on: the tail pass when winsorizing and not yet done,
\* else the parquet writer, which has no pool
PoolStartNext ==
  /\ pool.pc = "joined"
  /\ LET log1 == Append(pool.log,
                        [stage |-> pool.stage,
                         running |-> { w \in DOMAIN pool.worker :
                                         pool.worker[w].pc # "done" },
                         times |-> { Len(pool.done[i]) : i \in DOMAIN pool.done }])
     IN pool' = IF pool.winsorize /\ pool.stage # "tail_quantiles"
                THEN Pool0("tail_quantiles", pool.n, pool.S_workers,
                           pool.winsorize, log1)
                ELSE [pool EXCEPT !.pc = "serial", !.stage = "parquet",
                                  !.log = log1]
  /\ UNCHANGED <<incVars, aggVars, tq, pnl, den, evb, hist, bt, lookup, inAcc, pq, rth>>

(***************************************************************************)
(* The session filter of stage A: in_rth over Settings                     *)
(***************************************************************************)
RthNone == [pc |-> "idle"]

\* in_rth(h, m, s, S)
in_rth(h, m, s, S) ==
  IF h < S.rth_start_h \/ h > S.rth_end_h - 1 THEN FALSE
  ELSE IF h = S.rth_start_h /\ m < S.rth_start_m THEN FALSE
  ELSE IF h = S.rth_end_h THEN FALSE
  ELSE TRUE

\* windows --rth can configure: starts 09:00 to 10:30, ends 15:00 to 16:30,
\* the default 09:30 to 16:00 among them
RthSettings ==
  { [rth_start_h |-> sh, rth_start_m |-> sm, rth_end_h |-> eh, rth_end_m |-> em] :
      sh \in 9..10, sm \in {0, 30}, eh \in 15..16, em \in {0, 30} }
RthHours == 8..17
RthMinutes == {0, 15, 29, 30, 31, 59}
RthSeconds == {0, 59}

\* `if(!in_rth(h,m,s,S)) continue;` on a line whose time parsed as h:m:s
RthFilter ==
  /\ rth.pc = "ready"
  /\ \E h \in RthHours : \E m \in RthMinutes : \E s \in RthSeconds :
       rth' = [rth EXCEPT !.h = h, !.m = m, !.s = s,
                          !.pass = in_rth(h, m, s, rth.S), !.pc = "done"]
  /\ UNCHANGED <<incVars, aggVars, tq, pnl, den, evb, hist, bt, lookup, inAcc, pq, pool>>

(***************************************************************************)
(* Specifications.  Each runs one part of the pipeline; the variables of   *)
(* the other parts stay at their idle values.                              *)
(***************************************************************************)
\* inc_ms applied repeatedly to a session timestamp
IncInit ==
  /\ incStart \in SessionTs /\ incCur = incStart /\ incK = 0
  /\ maxFfill = 0 /\ evRun = Run0 /\ ckRun = Run0 /\ inTs = TsZero
  /\ nLines = 0 /\ pcA = "idle" /\ fallbackOut = Conv0
  /\ tq = TqIdleState /\ pnl = Pnl0(TRUE) /\ den = Den0
  /\ evb = Evb0
  /\ hist = HistNone
  /\ bt = Bt0
  /\ lookup = Lookup0
  /\ inAcc = <<>>
  /\ pq = PqNone
  /\ pool = PoolNone
  /\ rth = RthNone
IncNext == IncStep
SpecInc == IncInit /\ [][IncNext]_vars

\* stage A over timestamps with gaps (GridRead) or over prices and sizes (PxRead)
AggInit ==
  /\ incStart = TsZero /\ incCur = TsZero /\ incK = 0
  /\ maxFfill \in 1..MaxFfillGap
  /\ evRun = Run0 /\ ckRun = Run0 /\ inTs = TsZero
  /\ nLines = 0 /\ pcA = "reading" /\ fallbackOut = Conv0
  /\ tq = TqIdleState /\ pnl = Pnl0(TRUE) /\ den = Den0
  /\ evb = Evb0
  /\ hist = HistNone
  /\ bt = Bt0
  /\ lookup = Lookup0
  /\ inAcc = <<>>
  /\ pq = PqNone
  /\ pool = PoolNone
  /\ rth = RthNone
GridNext == GridRead \/ EndOfInput \/ EventToClock
SpecGrid == AggInit /\ [][GridNext]_vars
PxNext == PxRead \/ EndOfInput \/ EventToClock
SpecPx == AggInit /\ [][PxNext]_vars

\* stage A over quotes that share or split millisecond buckets
BkInit ==
  /\ incStart = TsZero /\ incCur = TsZero /\ incK = 0
  /\ maxFfill = 1
  /\ evRun = Run0 /\ ckRun = Run0 /\ inTs = TsZero
  /\ nLines = 0 /\ pcA = "reading" /\ fallbackOut = Conv0
  /\ tq = TqIdleState /\ pnl = Pnl0(TRUE) /\ den = Den0
  /\ evb = Evb0
  /\ hist = HistNone
  /\ bt = Bt0
  /\ lookup = Lookup0
  /\ inAcc = <<>>
  /\ pq = PqNone
  /\ pool = PoolNone
  /\ rth = RthNone
BkNext == BkRead \/ EndOfInput \/ EventToClock
SpecBk == BkInit /\ [][BkNext]_vars

\* stage A over accepted and rejected quotes of two hours and two days
\* the glitch runs under either setting of max_ffill_gap_ms: with 1 the gap
\* of two milliseconds is left open, with MaxFfillGap it is filled
GlInit ==
  /\ incStart = TsZero /\ incCur = TsZero /\ incK = 0
  /\ maxFfill \in {1, MaxFfillGap}
  /\ evRun = Run0 /\ ckRun = Run0 /\ inTs = TsZero
  /\ nLines = 0 /\ pcA = "reading" /\ fallbackOut = Conv0
  /\ tq = TqIdleState /\ pnl = Pnl0(TRUE) /\ den = Den0
  /\ evb = Evb0
  /\ hist = HistNone
  /\ bt = Bt0
  /\ lookup = Lookup0
  /\ inAcc = <<>>
  /\ pq = PqNone
  /\ pool = PoolNone
  /\ rth = RthNone
GlNext == GlRead \/ EndOfInput \/ EventToClock
SpecGl == GlInit /\ [][GlNext]_vars

\* the tail-quantile pass over any files, worker count and quantile pair;
\* every file can be opened, or all but the last
TqInit ==
  /\ incStart = TsZero /\ incCur = TsZero /\ incK = 0
  /\ maxFfill = 0 /\ evRun = Run0 /\ ckRun = Run0 /\ inTs = TsZero
  /\ nLines = 0 /\ pcA = "idle" /\ fallbackOut = Conv0
  /\ \E n \in 1..MaxShards : \E files \in [1..n -> ShardFiles] :
     \E gone \in {{}, {n - 1}} :
     \E W \in 1..MaxWorkers : \E ql \in 0..1 : \E qh \in (QDen - 2)..(QDen - 1) :
       tq = Tq0(files, gone, W, ql, qh)
  /\ pnl = Pnl0(TRUE) /\ den = Den0
  /\ evb = Evb0
  /\ hist = HistNone
  /\ bt = Bt0
  /\ lookup = Lookup0
  /\ inAcc = <<>>
  /\ pq = PqNone
  /\ pool = PoolNone
  /\ rth = RthNone
TqNext ==
  \/ \E w \in DOMAIN tq.worker : TqClaim(w)
  \/ \E w \in DOMAIN tq.worker : TqScan(w)
  \/ \E w \in DOMAIN tq.worker : TqMerge(w)
  \/ TqCutoffs
SpecTail == TqInit /\ [][TqNext]_vars

\* the PnL aggregator, debug or release build
PnlInit ==
  /\ incStart = TsZero /\ incCur = TsZero /\ incK = 0
  /\ maxFfill = 0 /\ evRun = Run0 /\ ckRun = Run0 /\ inTs = TsZero
  /\ nLines = 0 /\ pcA = "idle" /\ fallbackOut = Conv0
  /\ tq = TqIdleState
  /\ \E nd \in BOOLEAN : pnl = [Pnl0(nd) EXCEPT !.phase = "new"]
  /\ den = Den0
  /\ evb = Evb0
  /\ hist = HistNone
  /\ bt = Bt0
  /\ lookup = Lookup0
  /\ inAcc = <<>>
  /\ pq = PqNone
  /\ pool = PoolNone
  /\ rth = RthNone
PnlNext == StartYear \/ OnTrade \/ FinalizeYear
SpecPnl == PnlInit /\ [][PnlNext]_vars

\* the spike denoiser
DenInit ==
  /\ incStart = TsZero /\ incCur = TsZero /\ incK = 0
  /\ maxFfill = 0 /\ evRun = Run0 /\ ckRun = Run0 /\ inTs = TsZero
  /\ nLines = 0 /\ pcA = "idle" /\ fallbackOut = Conv0
  /\ tq = TqIdleState /\ pnl = Pnl0(TRUE)
  /\ den = Den0
  /\ evb = Evb0
  /\ hist = HistNone
  /\ bt = Bt0
  /\ lookup = Lookup0
  /\ inAcc = <<>>
  /\ pq = PqNone
  /\ pool = PoolNone
  /\ rth = RthNone
DenNext == DenRead
SpecDen == DenInit /\ [][DenNext]_vars

\* the spike denoiser on single-day streams over the example's mids
DenExampleNext == DenExampleRead
SpecDenExample == DenInit /\ [][DenExampleNext]_vars

\* the event builder's run over one input file
EvbInit ==
  /\ incStart = TsZero /\ incCur = TsZero /\ incK = 0
  /\ maxFfill = 0 /\ evRun = Run0 /\ ckRun = Run0 /\ inTs = TsZero
  /\ nLines = 0 /\ pcA = "idle" /\ fallbackOut = Conv0
  /\ tq = TqIdleState /\ pnl = Pnl0(TRUE)
  /\ den = Den0
  /\ evb = [Evb0 EXCEPT !.pc = "stream"]
  /\ hist = HistNone
  /\ bt = Bt0
  /\ lookup = Lookup0
  /\ inAcc = <<>>
  /\ pq = PqNone
  /\ pool = PoolNone
  /\ rth = RthNone
EvbNext == EvbRead \/ EvbFinish
SpecEvb == EvbInit /\ [][EvbNext]_vars

\* the histogram builder over event rows, default or configured alpha
HistInit ==
  /\ incStart = TsZero /\ incCur = TsZero /\ incK = 0
  /\ maxFfill = 0 /\ evRun = Run0 /\ ckRun = Run0 /\ inTs = TsZero
  /\ nLines = 0 /\ pcA = "idle" /\ fallbackOut = Conv0
  /\ tq = TqIdleState /\ pnl = Pnl0(TRUE)
  /\ den = Den0
  /\ evb = Evb0
  /\ \E a \in HistAlphas : hist = [Hist0 EXCEPT !.alpha = a, !.pc = "accumulate"]
  /\ bt = Bt0
  /\ lookup = Lookup0
  /\ inAcc = <<>>
  /\ pq = PqNone
  /\ pool = PoolNone
  /\ rth = RthNone
HistNext == HistAccumulate
SpecHist == HistInit /\ [][HistNext]_vars

\* the backtester over one year's events file, under any strategy
\* configuration of BtConfigs (release build of the aggregator)
BtInit ==
  /\ incStart = TsZero /\ incCur = TsZero /\ incK = 0
  /\ maxFfill = 0 /\ evRun = Run0 /\ ckRun = Run0 /\ inTs = TsZero
  /\ nLines = 0 /\ pcA = "idle" /\ fallbackOut = Conv0
  /\ tq = TqIdleState /\ pnl = Pnl0(TRUE)
  /\ den = Den0
  /\ evb = Evb0
  /\ hist = BtHist
  /\ \E cfg \in BtConfigs : \E file \in BtFiles :
       bt = [Bt0 EXCEPT !.cfg = cfg, !.row_groups = file, !.pc = "new"]
  /\ lookup = Lookup0
  /\ inAcc = <<>>
  /\ pq = PqNone
  /\ pool = PoolNone
  /\ rth = RthNone
BtNext == BtStartYear \/ BtNextEvent \/ BtFinalizeYear
SpecBt == BtInit /\ [][BtNext]_vars

\* the backtester under the configurations of BtEqConfigs
BtEqInit ==
  /\ incStart = TsZero /\ incCur = TsZero /\ incK = 0
  /\ maxFfill = 0 /\ evRun = Run0 /\ ckRun = Run0 /\ inTs = TsZero
  /\ nLines = 0 /\ pcA = "idle" /\ fallbackOut = Conv0
  /\ tq = TqIdleState /\ pnl = Pnl0(TRUE)
  /\ den = Den0
  /\ evb = Evb0
  /\ hist = BtHist
  /\ \E cfg \in BtEqConfigs : \E file \in BtFiles :
       bt = [Bt0 EXCEPT !.cfg = cfg, !.row_groups = file, !.pc = "new"]
  /\ lookup = Lookup0
  /\ inAcc = <<>>
  /\ pq = PqNone
  /\ pool = PoolNone
  /\ rth = RthNone
SpecBtEq == BtEqInit /\ [][BtNext]_vars

\* the builder over a tick stream, then the backtester over its events file
FileInit ==
  /\ incStart = TsZero /\ incCur = TsZero /\ incK = 0
  /\ maxFfill = 0 /\ evRun = Run0 /\ ckRun = Run0 /\ inTs = TsZero
  /\ nLines = 0 /\ pcA = "idle" /\ fallbackOut = Conv0
  /\ tq = TqIdleState /\ pnl = Pnl0(TRUE)
  /\ den = Den0
  /\ evb = [Evb0 EXCEPT !.pc = "stream"]
  /\ hist = HistNone
  /\ \E cfg \in FileConfigs : bt = [Bt0 EXCEPT !.cfg = cfg, !.pc = "new"]
  /\ lookup = Lookup0
  /\ inAcc = <<>>
  /\ pq = PqNone
  /\ pool = PoolNone
  /\ rth = RthNone
FileNext ==
  FileRead \/ EvbFinish \/ FileStartYear \/ FileNextEvent \/ FileFinalizeYear
SpecFile == FileInit /\ [][FileNext]_vars

\* one bin lookup of any tick state of the grid
LookupInit ==
  /\ incStart = TsZero /\ incCur = TsZero /\ incK = 0
  /\ maxFfill = 0 /\ evRun = Run0 /\ ckRun = Run0 /\ inTs = TsZero
  /\ nLines = 0 /\ pcA = "idle" /\ fallbackOut = Conv0
  /\ tq = TqIdleState /\ pnl = Pnl0(TRUE)
  /\ den = Den0
  /\ evb = Evb0
  /\ hist = HistNone
  /\ bt = Bt0
  /\ lookup = [Lookup0 EXCEPT !.pc = "ready"]
  /\ inAcc = <<>>
  /\ pq = PqNone
  /\ pool = PoolNone
  /\ rth = RthNone
LookupNext == CellLookup
SpecLookup == LookupInit /\ [][LookupNext]_vars

\* the partitioned writer over rows of two years, with and without winsor
PqInit ==
  /\ incStart = TsZero /\ incCur = TsZero /\ incK = 0
  /\ maxFfill = 0 /\ evRun = Run0 /\ ckRun = Run0 /\ inTs = TsZero
  /\ nLines = 0 /\ pcA = "idle" /\ fallbackOut = Conv0
  /\ tq = TqIdleState /\ pnl = Pnl0(TRUE) /\ den = Den0
  /\ evb = Evb0
  /\ hist = HistNone
  /\ bt = Bt0
  /\ lookup = Lookup0
  /\ inAcc = <<>>
  /\ \E cfg \in PqConfigs : pq = Pq0(cfg[1], cfg[2][1], cfg[2][2])
  /\ pool = PoolNone
  /\ rth = RthNone
PqNext == PqRow \/ PqCloseAll
SpecPq == PqInit /\ [][PqNext]_vars

\* the pools of one run: stage A from CSV or the event-to-clock fallback
\* first, 1..MaxShards files, --workers 0..MaxWorkers
PoolInit ==
  /\ incStart = TsZero /\ incCur = TsZero /\ incK = 0
  /\ maxFfill = 0 /\ evRun = Run0 /\ ckRun = Run0 /\ inTs = TsZero
  /\ nLines = 0 /\ pcA = "idle" /\ fallbackOut = Conv0
  /\ tq = TqIdleState /\ pnl = Pnl0(TRUE) /\ den = Den0
  /\ evb = Evb0
  /\ hist = HistNone
  /\ bt = Bt0
  /\ lookup = Lookup0
  /\ inAcc = <<>>
  /\ pq = PqNone
  /\ \E stage \in {"csv_to_msbin", "event_to_clock"} :
       \E n \in 1..MaxShards : \E workers \in 0..MaxWorkers :
         \E winsorize \in BOOLEAN :
           pool = Pool0(stage, n, workers, winsorize, <<>>)
  /\ rth = RthNone
PoolNext ==
  \/ \E w \in DOMAIN pool.worker : PoolClaim(w)
  \/ \E w \in DOMAIN pool.worker : PoolWork(w)
  \/ PoolJoin
  \/ PoolStartNext
SpecPool == PoolInit /\ [][PoolNext]_vars
\* threads are scheduled and the work on a shard ends
SpecPoolFair == SpecPool /\ WF_vars(PoolNext)

\* the session filter under the default and other configured windows
RthInit ==
  /\ incStart = TsZero /\ incCur = TsZero /\ incK = 0
  /\ maxFfill = 0 /\ evRun = Run0 /\ ckRun = Run0 /\ inTs = TsZero
  /\ nLines = 0 /\ pcA = "idle" /\ fallbackOut = Conv0
  /\ tq = TqIdleState /\ pnl = Pnl0(TRUE) /\ den = Den0
  /\ evb = Evb0
  /\ hist = HistNone
  /\ bt = Bt0
  /\ lookup = Lookup0
  /\ inAcc = <<>>
  /\ pq = PqNone
  /\ pool = PoolNone
  /\ \E S \in RthSettings :
       rth = [pc |-> "ready", S |-> S, h |-> 0, m |-> 0, s |-> 0, pass |-> FALSE]
RthNext == RthFilter
SpecRth == RthInit /\ [][RthNext]_vars

(***************************************************************************)
(* Claims about the stage-A aggregator and the clock grid                  *)
(***************************************************************************)
TickWellFormed(r) ==
  /\ r.bid > 0 /\ r.ask > 0 /\ r.ask > r.bid
  /\ r.bidSize > 0 /\ r.askSize > 0
  /\ r.spread = FSub(r.ask, r.bid) /\ r.spread > 0

\* C1: every Tick the aggregator emits has bid > 0, ask > 0, ask > bid (a
\* positive spread = ask - bid), bid_size > 0 and ask_size > 0.
C1_EmittedTickWellFormed ==
  /\ \A i \in 1..Len(evRun.out) : TickWellFormed(evRun.out[i])
  /\ \A i \in 1..Len(ckRun.out) : TickWellFormed(ckRun.out[i])

\* C2: the k-th application of inc_ms to a session timestamp (hours 09..15)
\* stays on the same calendar day and is k milliseconds later.
C2_IncMsAddsOneMs ==
  /\ ymd(incCur) = ymd(incStart)
  /\ ms_since_midnight(incCur) = ms_since_midnight(incStart) + incK

\* C3: the clock grid written directly from the quotes is, Tick for Tick, the
\* clock grid convert_one derives from the event grid of the same quotes.
C3_DirectClockEqualsFallback ==
  pcA = "converted" => ckRun.out = fallbackOut.out

\* positions of the real (not synthetic) Ticks of a clock-grid file
RealIdx(mask) == { i \in 1..Len(mask) : ~mask[i] }
\* the real Tick before real Tick i, 0 when i is the first
PrevReal(mask, i) ==
  IF \E p \in RealIdx(mask) : p < i
  THEN CHOOSE p \in RealIdx(mask) : p < i /\ \A q \in RealIdx(mask) : q < i => q <= p
  ELSE 0
\* G = ms(curr) - ms(prev) - 1
GapMs(prev, curr) == ms_since_midnight(curr.ts) - ms_since_midnight(prev.ts) - 1

\* C4: in clock mode, after a same-day gap G > max_ffill_gap_ms no fill is
\* emitted and the real Tick that follows the gap has a null log_return.
C4_GapResetsLogReturn ==
  \A i \in RealIdx(ckRun.fillMask) :
    LET p == PrevReal(ckRun.fillMask, i)
    IN (/\ p > 0
        /\ same_day(ckRun.out[p].ts, ckRun.out[i].ts)
        /\ GapMs(ckRun.out[p], ckRun.out[i]) > maxFfill)
       => (p = i - 1 /\ ~isfinite(ckRun.out[i].logret))

\* the fill rule on a clock-grid file (rows out, fill mask): between
\* consecutive real Ticks there are exactly G fills when they share a day and
\* 0 < G <= gapMs, none otherwise; every fill copies the Tick before it with
\* log_return 0
FillRuleHolds(out, mask, gapMs) ==
  /\ \A i \in RealIdx(mask) :
       LET p == PrevReal(mask, i)
       IN p > 0 =>
            LET G == GapMs(out[p], out[i])
            IN IF same_day(out[p].ts, out[i].ts) /\ 0 < G /\ G <= gapMs
               THEN i - p - 1 = G
               ELSE i - p - 1 = 0
  /\ \A i \in 1..Len(mask) :
       mask[i] =>
         /\ i > 1
         /\ out[i].logret = ZeroLr
         /\ [out[i] EXCEPT !.ts = TsZero, !.logret = NaN]
              = [out[i - 1] EXCEPT !.ts = TsZero, !.logret = NaN]

\* C5: in clock mode exactly G synthetic Ticks sit between two consecutive
\* same-day real Ticks when 0 < G <= max_ffill_gap_ms, none when G = 0,
\* G > max_ffill_gap_ms or the days differ; each copies the previous Tick's
\* bid, ask, sizes, mid and spread with log_return = 0.
C5_ClockFillCount ==
  FillRuleHolds(ckRun.out, ckRun.fillMask, maxFfill)

\* the same rule on the file convert_one writes from the event grid
FallbackFillCount ==
  pcA = "converted" => FillRuleHolds(fallbackOut.out, fallbackOut.fillMask, maxFfill)

(***************************************************************************)
(* Claims about the tail-quantile pass                                     *)
(***************************************************************************)
RECURSIVE FiniteOf(_, _)
\* the finite log returns of rows k.. of one file, in file order
FiniteOf(rows, k) ==
  IF k > Len(rows) THEN <<>>
  ELSE (IF isfinite(rows[k]) THEN <<rows[k].v>> ELSE <<>>) \o FiniteOf(rows, k + 1)
RECURSIVE AllFinite(_, _)
\* the finite log returns of files i.. 
AllFinite(files, i) ==
  IF i > Len(files) THEN <<>> ELSE FiniteOf(files[i], 1) \o AllFinite(files, i + 1)
RECURSIVE SortAsc(_)
SortAsc(q) == IF q = <<>> THEN <<>> ELSE InsertSorted(SortAsc(Tail(q)), Head(q))

\* C6: after all workers have finished, the merged count N is the number of
\* finite log_return samples over all shards.
C6_MergedCountIsTotal ==
  tq.pc = "done" => tq.N_finite = Len(AllFinite(tq.msbins, 1))

\* C7: (L covers both tails) the cutoffs are the order statistics at ranks
\* floor(q_lo*N) and floor(q_hi*N) of all finite log_returns of all shards,
\* whatever the number of workers and their interleaving.
C7_CutoffsAreOrderStatistics ==
  LET all == SortAsc(AllFinite(tq.msbins, 1))
      N == Len(all)
  IN (tq.pc = "done" /\ N > 0 /\ L >= N) =>
       /\ tq.cut_lo = FiniteRow(all[(tq.q_lo * N) \div QDen + 1])
       /\ tq.cut_hi = FiniteRow(all[(tq.q_hi * N) \div QDen + 1])

(***************************************************************************)
(* Claims about the PnL aggregator                                         *)
(***************************************************************************)
\* C8: whenever a day is open and a row has been flushed, the open day is
\* later than the last row's day, so no assert of CheckInvariants fails.
C8_OpenDayAfterLastRow ==
  /\ ~pnl.aborted
  /\ (pnl.current_day # 0 /\ pnl.daily_rows # <<>>) =>
       pnl.current_day > pnl.daily_rows[Len(pnl.daily_rows)].day

RECURSIVE SumNet(_)
SumNet(ts) == IF ts = <<>> THEN 0 ELSE Head(ts).net_ret + SumNet(Tail(ts))
RECURSIVE SumGross(_)
SumGross(ts) == IF ts = <<>> THEN 0 ELSE Head(ts).gross_ret + SumGross(Tail(ts))
\* the offered trades that carry a calendar day
Dated(ts) == SelectSeq(ts, LAMBDA t : t.day # 0)
UpToDay(ts, d) == SelectSeq(ts, LAMBDA t : t.day # 0 /\ t.day <= d)
OnDay(ts, d) == SelectSeq(ts, LAMBDA t : t.day = d)

\* C9: with trade days never decreasing in a year, the daily rows strictly
\* increase in day, each row's cumulative_net_ret is the sum of net_ret of all
\* the year's trades up to and including its day, and a trade with day 0
\* leaves the trades list, the open day and every total as they were (they
\* are those of the dated trades alone).
C9_DailyRowsRunningSum ==
  ~pnl.aborted =>
    LET rows == pnl.daily_rows
        real == Dated(pnl.offered)
    IN /\ \A i \in 1..Len(rows) :
            /\ i > 1 => rows[i - 1].day < rows[i].day
            /\ rows[i].cumulative_net_ret = SumNet(UpToDay(pnl.offered, rows[i].day))
       /\ pnl.trades = real
       /\ pnl.current_day = (IF real = <<>> THEN 0 ELSE real[Len(real)].day)
       /\ pnl.cumulative_net = SumNet(real)
       /\ pnl.phase = "open" =>
            /\ pnl.day_trade_count = Len(OnDay(real, pnl.current_day))
            /\ pnl.day_net_sum = SumNet(OnDay(real, pnl.current_day))
            /\ pnl.day_gross_sum = SumGross(OnDay(real, pnl.current_day))

\* two rows, the second after two trades of one day, and a day-0 trade offered
\* after a dated one
C9_Witness ==
  /\ ~pnl.aborted
  /\ Len(pnl.daily_rows) >= 2
  /\ pnl.daily_rows[2].num_trades = 2
  /\ pnl.daily_rows[2].cumulative_net_ret # pnl.daily_rows[2].net_ret_sum
  /\ \E i \in 2..Len(pnl.offered) : pnl.offered[i].day = 0

(***************************************************************************)
(* Claims about the spike denoiser                                         *)
(***************************************************************************)
\* the rows before row i that were kept and are of row i's day
KeptBefore(rows, i) == { j \in 1..(i - 1) : rows[j].keep /\ rows[j].day = rows[i].day }
SetMax(S) == CHOOSE x \in S : \A y \in S : y <= x
\* all kept rows
KeptIdx(rows) == { j \in 1..Len(rows) : rows[j].keep }

\* C10: a tick is kept iff mid <= MID_MAX and either no tick of its day was
\* kept before it or |mid - baseline mid| < threshold, the baseline being the
\* most recently kept tick of the same day; dropped ticks leave the baseline
\* alone (the state's baseline is the last kept tick).
C10_KeepRule ==
  LET rows == den.rows
  IN /\ \A i \in 1..Len(rows) :
          IF rows[i].null THEN ~rows[i].keep
          ELSE rows[i].keep <=>
                 /\ rows[i].mid <= MID_MAX
                 /\ \/ KeptBefore(rows, i) = {}
                    \/ Abs(rows[i].mid - rows[SetMax(KeptBefore(rows, i))].mid)
                         < threshold
     /\ den.have_last =>
          /\ KeptIdx(rows) # {}
          /\ den.last_mid = rows[SetMax(KeptIdx(rows))].mid
          /\ den.last_ts = rows[SetMax(KeptIdx(rows))].ts
          /\ den.last_day = rows[SetMax(KeptIdx(rows))].day

\* 50 kept, 150 dropped (delta = threshold), 149 kept (delta = threshold - 1)
\* against the unchanged baseline 50, then the next day opens at 1000
C10_Witness ==
  /\ Len(den.rows) = 4
  /\ den.rows[1].mid = 50 /\ den.rows[1].keep
  /\ den.rows[2].mid = 150 /\ den.rows[2].day = den.rows[1].day /\ ~den.rows[2].keep
  /\ den.rows[3].mid = 149 /\ den.rows[3].day = den.rows[1].day /\ den.rows[3].keep
  /\ den.rows[4].mid = 1000 /\ den.rows[4].day > den.rows[1].day /\ den.rows[4].keep
  /\ \A i \in 1..4 : ~den.rows[i].null

\* the mids of the rows read, and of the rows kept, in file order
RowMids(rows) == [i \in 1..Len(rows) |-> rows[i].mid]
KeptMids(rows) == SelectSeq(RowMids(rows), LAMBDA m : \E i \in 1..Len(rows) : rows[i].mid = m /\ rows[i].keep)

\* C11: on the one-day stream 50, 1200, 80, 100, 250 (threshold 100, MID_MAX
\* 1000) the kept mids are 50, 80, 100; 1200 is counted in removed_by_level
\* and 250 in removed_by_delta; the baseline at the end is the tick of mid 100.
C11_ExampleStreamCounts ==
  RowMids(den.rows) = ExampleStream =>
    /\ KeptMids(den.rows) = <<50, 80, 100>>
    /\ den.removed_by_level = 1
    /\ den.removed_by_delta = 1
    /\ den.have_last /\ den.last_mid = 100 /\ den.last_ts = 4

(***************************************************************************)
(* Claims about the event builder                                          *)
(***************************************************************************)
\* the log_return the builder sees at a row (null reads as NaN)
EvLr(row) == IF row.lr_null THEN NaN ELSE row.lr
\* a row that is a mid-change event
IsMidChange(row) == ~row.null /\ isfinite(EvLr(row)) /\ EvLr(row) # ZeroLr
MidChangeIdx(rows) == { i \in 1..Len(rows) : IsMidChange(rows[i]) }
\* the first mid-change row after row i, 0 when there is none
NextChange(rows, i) ==
  IF \E j \in MidChangeIdx(rows) : j > i
  THEN CHOOSE j \in MidChangeIdx(rows) :
         j > i /\ \A q \in MidChangeIdx(rows) : q > i => j <= q
  ELSE 0
TsLeq(a, b) == a.day < b.day \/ (a.day = b.day /\ a.tod <= b.tod)

\* C12: every written event e is a mid-change row of the input labeled from
\* the next mid-change row n, which is of the same day: mid_next = n.mid,
\* y = sign(n.mid - e.mid), tau_ms = ms(n.ts) - ms(e.ts); the written events
\* follow the input's timestamp order and no row is written twice.
C12_LabeledFromNextMidChange ==
  LET rows == evb.rows
      W == evb.written
      F == evb.written_from
  IN /\ Len(F) = Len(W)
     /\ \A k \in 1..Len(W) :
          LET e == F[k].e
              n == F[k].n
          IN /\ e \in MidChangeIdx(rows)
             /\ n = NextChange(rows, e)
             /\ day_from_ts(rows[n].ts) = day_from_ts(rows[e].ts)
             /\ W[k].ts = rows[e].ts /\ W[k].mid = rows[e].mid
             /\ W[k].mid_next = rows[n].mid
             /\ W[k].y = SignOf(rows[n].mid - rows[e].mid)
             /\ W[k].tau_ms = ms_since_midnight(rows[n].ts) - ms_since_midnight(rows[e].ts)
     /\ \A k \in 1..Len(W) : \A k2 \in (k + 1)..Len(W) :
          F[k].e < F[k2].e /\ TsLeq(W[k].ts, W[k2].ts)

\* an event labeled flat (y = 0) over a tick that is not a mid-change, 14 ms on
C12_Witness ==
  /\ Len(evb.written) = 1
  /\ evb.written_from[1] = [e |-> 1, n |-> 3]
  /\ ~evb.rows[2].null /\ ~IsMidChange(evb.rows[2])
  /\ evb.written[1].y = 0 /\ evb.written[1].tau_ms = 14

\* non-null rows of one day carry strictly increasing timestamps
StrictlyIncreasingInDay(rows) ==
  \A i \in 1..Len(rows) : \A j \in (i + 1)..Len(rows) :
    (~rows[i].null /\ ~rows[j].null /\ same_day(rows[i].ts, rows[j].ts))
      => ms_since_midnight(rows[i].ts) < ms_since_midnight(rows[j].ts)

\* C13: when the input's timestamps strictly increase within a day, every
\* written event has day = day_from_ts(ts), tau_ms > 0,
\* |mid_next - mid| <= threshold_next, y in {-1, 0, 1}, and the event that
\* gave mid_next is of the same day.
C13_WrittenEventBounds ==
  StrictlyIncreasingInDay(evb.rows) =>
    \A k \in 1..Len(evb.written) :
      LET w == evb.written[k]
      IN /\ day_from_ts(w.ts) = w.day
         /\ w.tau_ms > 0
         /\ Abs(w.mid_next - w.mid) <= threshold_next
         /\ w.y \in {-1, 0, 1}
         /\ day_from_ts(evb.rows[evb.written_from[k].n].ts) = w.day

\* strictly increasing input: a jump over the threshold was dropped and a
\* jump of exactly the threshold was written
C13_Witness ==
  /\ StrictlyIncreasingInDay(evb.rows)
  /\ evb.events_dropped_bigmove = 1
  /\ Len(evb.written) = 1
  /\ Abs(evb.written[1].mid_next - evb.written[1].mid) = threshold_next

\* the rows whose event was written
WrittenRows == { evb.written_from[k].e : k \in 1..Len(evb.written_from) }
\* mid-change rows with no later mid-change row of their day
LastOfDay(rows) ==
  { i \in MidChangeIdx(rows) :
      \A j \in MidChangeIdx(rows) : j > i => ~same_day(rows[i].ts, rows[j].ts) }

\* what one step of the builder does to a pending event
C14_Step ==
  LET r == evb'.rows[Len(evb'.rows)]
      read == Len(evb'.rows) = Len(evb.rows) + 1
      newDay == read /\ ~r.null
                /\ (~evb.have_day \/ day_from_ts(r.ts) # evb.curr_day)
      ends == evb.pc = "stream" /\ evb'.pc = "done"
  IN /\ (newDay /\ evb.have_prev_event) =>
          /\ evb'.events_dropped_boundary = evb.events_dropped_boundary + 1
          /\ evb'.written = evb.written
          /\ evb'.have_prev_event => evb'.prev_row = Len(evb'.rows)
     /\ (ends /\ evb.have_prev_event) =>
          /\ evb'.events_dropped_boundary = evb.events_dropped_boundary + 1
          /\ evb'.written = evb.written
          /\ ~evb'.have_prev_event
     /\ ~((newDay \/ ends) /\ evb.have_prev_event) =>
          evb'.events_dropped_boundary = evb.events_dropped_boundary
     /\ WrittenRows' \cap LastOfDay(evb'.rows) = {}
     /\ \A k \in 1..Len(evb'.written_from) :
          same_day(evb'.rows[evb'.written_from[k].e].ts,
                   evb'.rows[evb'.written_from[k].n].ts)

\* C14: the first tick of a new day (mid-change or not) and the end of the
\* stream discard the pending event and add one to events_dropped_boundary;
\* nothing else changes that counter; no event is labeled from another day
\* and the last mid-change of a day is never written.
C14_PendingDroppedAtDayBoundary == [][C14_Step]_vars

\* a pending event dropped by a new day's tick that is not a mid-change, and
\* the new day's only event dropped at the end of the stream
C14_Witness ==
  /\ evb.pc = "done"
  /\ Len(evb.rows) = 3
  /\ IsMidChange(evb.rows[1]) /\ IsMidChange(evb.rows[3])
  /\ ~evb.rows[2].null /\ ~IsMidChange(evb.rows[2])
  /\ ~same_day(evb.rows[1].ts, evb.rows[2].ts)
  /\ evb.events_dropped_boundary = 2
  /\ evb.written = <<>>

(***************************************************************************)
(* Claims about the histogram                                              *)
(***************************************************************************)
\* the rows of a batch that are accumulated into cell k
CellRows(batch, k) ==
  {i \in DOMAIN batch : ~batch[i].null /\ cell_index(batch[i].x) = k}
RECURSIVE SumTau(_, _)
SumTau(batch, I) ==
  IF I = {} THEN 0
  ELSE LET i == CHOOSE j \in I : TRUE IN batch[i].tau_ms + SumTau(batch, I \ {i})
\* the sum of n over the cells lo..hi
RECURSIVE SumNRange(_, _, _)
SumNRange(cells, lo, hi) ==
  IF lo > hi THEN 0
  ELSE IF lo = hi THEN cells[lo].n
  ELSE LET mid == (lo + hi) \div 2
       IN SumNRange(cells, lo, mid) + SumNRange(cells, mid + 1, hi)
SumN(cells) == SumNRange(cells, 0, N_CELLS - 1)

C19_Step ==
  LET batch == hist'.batch
      accumulated == {i \in DOMAIN batch : ~batch[i].null}
      touched == {cell_index(batch[i].x) : i \in accumulated}
  IN /\ \A k \in (0..(N_CELLS - 1)) \ touched : hist'.cells[k] = hist.cells[k]
     /\ \A k \in touched :
          LET c == hist.cells[k]
              d == hist'.cells[k]
              I == CellRows(batch, k)
          IN /\ d.n = c.n + Cardinality(I)
             /\ d.n_up = c.n_up + Cardinality({i \in I : batch[i].y > 0})
             /\ d.n_down = c.n_down + Cardinality({i \in I : batch[i].y < 0})
             /\ d.sum_tau_ms = c.sum_tau_ms + SumTau(batch, I)
     /\ \A k \in 0..(N_CELLS - 1) :
          hist'.cells[k].n >= hist'.cells[k].n_up + hist'.cells[k].n_down
     /\ SumN(hist'.cells)
          = SumN(hist.cells) + Cardinality(accumulated)
     /\ \A i \in accumulated : cell_index(batch[i].x) \in 0..(N_CELLS - 1)

\* C19: accumulating a batch adds, for each of its rows without a null, one
\* to n of the cell of the row's state and the row's tau_ms to that cell's
\* sum_tau_ms, one to that cell's n_up only when y > 0 and to its n_down
\* only when y < 0, and nothing to any other cell; so every cell keeps
\* n >= n_up + n_down and the sum of n over the 270 cells grows by the
\* number of accumulated rows.
C19_AccumulateCounts == [][C19_Step]_vars

\* four rows read, one of them skipped for a null; a cell holds a flat and
\* an up move, another cell a down move
C19_Witness ==
  /\ hist.rows = 4
  /\ SumN(hist.cells) = 3
  /\ \E k \in 0..(N_CELLS - 1) : \E j \in 0..(N_CELLS - 1) :
       /\ k # j
       /\ hist.cells[k].n = 2 /\ hist.cells[k].n_up = 1 /\ hist.cells[k].n_down = 0
       /\ hist.cells[j].n = 1 /\ hist.cells[j].n_down = 1

\* C20: for alpha > 0 and every cell k, p_up(k) * (n_up + n_down + 2 alpha)
\* = n_up + alpha when n_up + n_down > 0 and p_up(k) = 1/2 otherwise;
\* p_up(k) + p_down(k) = 1; alpha / (n_up + n_down + 2 alpha) <= p_up(k)
\* <= 1 - alpha / (n_up + n_down + 2 alpha); direction_score(k) =
\* 2 p_up(k) - 1; and n_up = 3, n_down = 1, alpha = 1 give 4/6 and 1/3.
C20_SmoothedProbabilities ==
  RatLt(RatZero, hist.alpha) =>
    \A k \in 0..(N_CELLS - 1) :
      LET c == hist.cells[k]
          a == hist.alpha
          n_tot == c.n_up + c.n_down
          p == p_up(hist, k)
          q == p_down(hist, k)
          D == direction_score(hist, k)
          lo == RatDiv(a, RatAdd(RatOfInt(n_tot), RatAdd(a, a)))
      IN /\ IF n_tot > 0
            THEN p.num * (n_tot * a.den + 2 * a.num) = p.den * (c.n_up * a.den + a.num)
            ELSE 2 * p.num = p.den
         /\ p.den > 0 /\ q.den > 0 /\ D.den > 0
         /\ p.num * q.den + q.num * p.den = p.den * q.den
         /\ RatLe(lo, p) /\ RatLe(p, RatSub(RatOfInt(1), lo))
         /\ D.num * p.den = (2 * p.num - p.den) * D.den
         /\ (c.n_up = 3 /\ c.n_down = 1 /\ a = Rat(1, 1))
              => (p = Rat(2, 3) /\ D = Rat(1, 3))

\* a cell with three up moves and one down move under alpha = 1
C20_Witness ==
  /\ hist.alpha = Rat(1, 1)
  /\ \E k \in 0..(N_CELLS - 1) : hist.cells[k].n_up = 3 /\ hist.cells[k].n_down = 1

(***************************************************************************)
(* Claims about the backtester                                             *)
(***************************************************************************)
\* the last trade handed to the aggregator
LastTrade == bt.trades[Len(bt.trades)]
\* D(k), EE and the mean wait of the entry event of the last ProcessEvent call
LastCell ==
  cell_index(TickState(bt.last.ev.imbalance, bt.last.ev.spread,
                       bt.last.ev.age_diff_ms, bt.last.ev.last_move))
LastD == direction_score(hist, LastCell)
LastEE == RatNorm(LastD.num * bt.last.ev.spread, LastD.den * 2 * bt.last.ev.mid)
LastGoodData == bt.last.ev.mid > 0 /\ bt.last.ev.spread > 0

C15_Step ==
  /\ bt'.calls = IF bt'.events = 0 THEN 0 ELSE bt'.events - 1
  /\ Len(pnl'.trades) = Len(bt'.trades)
  /\ bt'.trades # bt.trades =>
       /\ bt'.events = bt.events + 1
       /\ bt.has_prev
       /\ bt'.prev_ev.day = bt.prev_ev.day
       /\ \E t \in {bt'.trades[Len(bt'.trades)]} :
            /\ bt'.trades = Append(bt.trades, t)
            /\ t.ts_in = bt.prev_ev.ts /\ t.mid_in = bt.prev_ev.mid
            /\ t.day = bt.prev_ev.day
            /\ t.ts_out = bt'.prev_ev.ts /\ t.mid_out = bt'.prev_ev.mid
  /\ \A i \in 1..Len(bt'.trades) :
       /\ day_from_ts(bt'.trades[i].ts_out) = bt'.trades[i].day
       /\ day_from_ts(bt'.trades[i].ts_in) = bt'.trades[i].day
       /\ bt'.trades[i].ts_in # bt'.prev_ev.ts

\* what the loop of RunForYear does with the rows its stream delivers:
\* ProcessEvent has run once for every event read but the last, each time
\* on an event and the event read right after it; a trade comes only from
\* such a pair of one day and carries the follower's ts and mid as ts_out
\* and mid_out; the event read last and the last event of a day are the
\* entry of no trade.
PairsOfTheStream == [][C15_Step]_vars

\* RunForYear has ended, by its return or by the exception of the stream's
\* constructor
RunForYearEnded == bt.pc \in {"done", "threw"}
\* the events of the file of RunForYear
BtFileRows == RowsOfFile(bt.row_groups, 1)

\* C15: RunForYear runs ProcessEvent once for every event of the file but
\* the last, each time on an event and the event right after it; a trade
\* comes only from such a pair of one day and carries the follower's ts
\* and mid as ts_out and mid_out; the last event of the stream and the
\* last event of a day are the entry of no trade.
C15_AdjacentSameDayPairs ==
  [][/\ C15_Step
     /\ RunForYearEnded' =>
          bt'.calls = IF BtFileRows' = 0 THEN 0 ELSE BtFileRows' - 1]_vars

\* a file of ten row groups or more is read: three events, two of the first
\* day and one of the next; the first pair traded, the last event of the
\* first day and the last of the stream did not
StreamOfThreeEvents ==
  /\ bt.pc = "done" /\ bt.events = 3 /\ bt.calls = 2
  /\ Len(bt.trades) = 1 /\ bt.trades[1].day = Day1
  /\ bt.prev_ev.day = Day2 /\ bt.last.ev.day = Day1 /\ ~bt.last.has_next

\* C16 as stated: in Legacy mode an entry event with a same-day next event,
\* mid > 0, spread > 0, D > 0 and EE > 0 is always traded, with cost_ret = 0,
\* and an event with EE <= 0 is never traded.
C16_LegacyAlwaysTrades ==
  (bt.cfg.edge_mode = "Legacy" /\ bt.calls > 0) =>
    /\ (bt.last.has_next /\ LastGoodData /\ RatLt(RatZero, LastD)
          /\ RatLt(RatZero, LastEE))
         => (bt.last.traded /\ LastTrade.cost_ret = RatZero)
    /\ (LastGoodData /\ RatLe(LastEE, RatZero)) => ~bt.last.traded

\* the magnitude gate and the wait gate, as the configuration states them
LastPassesOptionalGates ==
  /\ (bt.cfg.min_abs_direction_score.num > 0
        => RatLe(bt.cfg.min_abs_direction_score, RatAbs(LastD)))
  /\ (bt.cfg.max_mean_wait_ms > 0
        => ~RatLt(RatOfInt(bt.cfg.max_mean_wait_ms), mean_tau_ms(hist, LastCell)))

\* C16, amended: in Legacy mode an entry event with a same-day next event,
\* mid > 0, spread > 0, D > 0 and EE > 0 that passes the magnitude gate and
\* the wait gate (both off by default) is always traded, with cost_ret = 0,
\* and an event with EE <= 0 is never traded.
C16_LegacyTradesPastGates ==
  (bt.cfg.edge_mode = "Legacy" /\ bt.calls > 0) =>
    /\ (bt.last.has_next /\ LastGoodData /\ RatLt(RatZero, LastD)
          /\ RatLt(RatZero, LastEE) /\ LastPassesOptionalGates)
         => (bt.last.traded /\ LastTrade.cost_ret = RatZero)
    /\ (LastGoodData /\ RatLe(LastEE, RatZero)) => ~bt.last.traded

\* Legacy mode with the magnitude gate on: an event of positive edge that
\* passes the gate was traded, then one of negative edge was not
C16_Witness ==
  /\ bt.cfg.edge_mode = "Legacy" /\ bt.cfg.min_abs_direction_score = Rat(1, 2)
  /\ Len(bt.trades) = 1 /\ bt.trades[1].cost_ret = RatZero
  /\ bt.trades[1].direction_score = Rat(1, 2)
  /\ bt.calls = 2 /\ bt.last.has_next /\ LastGoodData
  /\ RatLt(LastEE, RatZero) /\ ~bt.last.traded

\* the bound of the expected-edge gate for the last entry event:
\* (2 fee_price + slip_price) / mid + min_expected_edge_bps * 1e-4
LastGateBound ==
  RatNorm((2 * bt.cfg.fee_price + bt.cfg.slip_price) * 10000
            + bt.cfg.min_expected_edge_bps * bt.last.ev.mid,
          bt.last.ev.mid * 10000)

\* C17: in CostWithGate mode with min_expected_edge_bps > 0 an event is
\* traded only if |EE| > (2 fee_price + slip_price) / mid +
\* min_expected_edge_bps * 1e-4, an edge equal to the bound being skipped;
\* with min_expected_edge_bps = 0 the mode decides as CostTradeAll does and
\* hands over the same trade.
C17_EdgeGate ==
  (bt.cfg.edge_mode = "CostWithGate" /\ bt.calls > 0) =>
    /\ (bt.cfg.min_expected_edge_bps > 0 /\ bt.last.traded)
         => RatLt(LastGateBound, RatAbs(LastEE))
    /\ bt.cfg.min_expected_edge_bps = 0 =>
         LET all == ProcessEvent([bt.cfg EXCEPT !.edge_mode = "CostTradeAll"], hist,
                                 bt.last.ev, bt.last.has_next, bt.last.next_event)
         IN /\ all.traded = bt.last.traded
            /\ bt.last.traded => all.trade = LastTrade

\* CostWithGate with a margin of 100 bps and the other gates off: an event
\* above the bound was traded, then one with |EE| equal to the bound was not
C17_Witness ==
  /\ bt.cfg.edge_mode = "CostWithGate" /\ bt.cfg.min_expected_edge_bps = 100
  /\ bt.cfg.min_abs_direction_score = RatZero /\ bt.cfg.max_mean_wait_ms = 0
  /\ Len(bt.trades) = 1 /\ bt.calls = 2
  /\ bt.last.has_next /\ LastGoodData
  /\ RatAbs(LastEE) = LastGateBound /\ ~bt.last.traded

\* C18: every trade has side = +1 when D > 0 and -1 otherwise, gross_ret =
\* side * (next.mid - ev.mid) / ev.mid, net_ret = gross_ret - cost_ret, and
\* cost_ret = 0 in Legacy mode and (spread + 2 fee_price + slip_price) / mid
\* in the two cost modes; D is the direction score of the entry event's cell.
C18_TradeRecordFields ==
  /\ \A i \in 1..Len(bt.trades) :
       LET t == bt.trades[i]
       IN /\ t.side = IF t.direction_score.num > 0 THEN 1 ELSE 0 - 1
          /\ t.gross_ret.den > 0 /\ t.net_ret.den > 0 /\ t.cost_ret.den > 0
          /\ t.gross_ret.num * t.mid_in = t.side * (t.mid_out - t.mid_in) * t.gross_ret.den
          /\ t.net_ret.num * t.gross_ret.den * t.cost_ret.den
               = (t.gross_ret.num * t.cost_ret.den - t.cost_ret.num * t.gross_ret.den)
                   * t.net_ret.den
          /\ IF bt.cfg.edge_mode = "Legacy" THEN t.cost_ret.num = 0
             ELSE t.cost_ret.num * t.mid_in
                    = (t.spread_in + 2 * bt.cfg.fee_price + bt.cfg.slip_price)
                        * t.cost_ret.den
  /\ (bt.calls > 0 /\ bt.last.traded) =>
       /\ LastTrade.direction_score = LastD
       /\ LastTrade.mid_in = bt.last.ev.mid /\ LastTrade.spread_in = bt.last.ev.spread
       /\ LastTrade.mid_out = bt.last.next_event.mid

\* a cost mode traded an event of an empty cell, D = 0: a short with a
\* nonzero gross return and the full cost
C18_Witness ==
  /\ bt.cfg.edge_mode # "Legacy"
  /\ \E i \in 1..Len(bt.trades) :
       /\ bt.trades[i].direction_score = RatZero /\ bt.trades[i].side = 0 - 1
       /\ bt.trades[i].gross_ret.num # 0 /\ bt.trades[i].cost_ret.num > 0
  /\ \E i \in 1..Len(bt.trades) : bt.trades[i].side = 1

(***************************************************************************)
(* Claims about the bins                                                   *)
(***************************************************************************)
\* n / d, d > 0, lies in the imbalance bin b of the specification, values
\* outside [-1, 1] being put in the first or the last bin
InImbBin(n, d, b) ==
  IF b = 0 THEN 10 * n < 0 - 7 * d
  ELSE IF b = 1 THEN 0 - 7 * d <= 10 * n /\ 10 * n < 0 - 3 * d
  ELSE IF b = 2 THEN 0 - 3 * d <= 10 * n /\ 10 * n < 0 - d
  ELSE IF b = 3 THEN 0 - d <= 10 * n /\ 10 * n <= d
  ELSE IF b = 4 THEN d < 10 * n /\ 10 * n <= 3 * d
  ELSE 3 * d < 10 * n

\* C21: imb_bin, hard-coded or over the default configurable bins, maps an
\* imbalance to the one bin of [-1,-0.7), [-0.7,-0.3), [-0.3,-0.1),
\* [-0.1,0.1], (0.1,0.3], (0.3,1.0] that holds it, a value below -1 to the
\* first and a value above 1 to the last; -0.7 is in bin 1, -0.1 and 0.1
\* are in bin 3 and 0.3 is in bin 4.
C21_ImbalanceBins ==
  lookup.pc = "done" =>
    LET n == lookup.x.imbalance.num
        d == lookup.x.imbalance.den
    IN /\ lookup.b_imb \in 0..5
       /\ lookup.b_imb_cfg = lookup.b_imb
       /\ \A b \in 0..5 : InImbBin(n, d, b) <=> b = lookup.b_imb
       /\ 10 * n = 0 - 7 * d => lookup.b_imb = 1
       /\ (10 * n = 0 - d \/ 10 * n = d) => lookup.b_imb = 3
       /\ 10 * n = 3 * d => lookup.b_imb = 4

\* the lookup of an imbalance of -0.7
C21_Witness ==
  /\ lookup.pc = "done" /\ lookup.x.imbalance = Rat(0 - 7, 10)
  /\ lookup.b_imb = 1 /\ lookup.b_imb_cfg = 1

\* C22: in event mode a Tick's log_return is null exactly when no Tick of
\* the same calendar day was emitted before it; every other Tick follows a
\* Tick of its own day and carries the finite log return of its mid against
\* the mid of that immediately preceding Tick.
C22_EventLogReturn ==
  \A i \in 1..Len(evRun.out) :
    LET r == evRun.out[i]
        first == \A j \in 1..(i - 1) : ymd(evRun.out[j].ts) # ymd(r.ts)
    IN /\ ~isfinite(r.logret) <=> first
       /\ ~first =>
            /\ ymd(evRun.out[i - 1].ts) = ymd(r.ts)
            /\ isfinite(r.logret)
            /\ r.logret = Log(r.mid, evRun.out[i - 1].mid)

\* two Ticks of one day with different mids, then the first Tick of the next
\* day, the file closed
C22_Witness ==
  /\ pcA = "flushed" /\ Len(evRun.out) = 3
  /\ ymd(evRun.out[1].ts) = Day1 /\ ymd(evRun.out[2].ts) = Day1
  /\ ymd(evRun.out[3].ts) = Day2
  /\ evRun.out[2].mid # evRun.out[1].mid
  /\ isfinite(evRun.out[2].logret) /\ ~isfinite(evRun.out[3].logret)

\* the buckets of accepted quotes that are closed: all of them once the input
\* has ended, all but the one still collecting while lines are read
ClosedBuckets ==
  IF pcA = "reading" /\ inAcc # <<>> /\ inAcc[Len(inAcc)].ms = evRun.bucket.ms
  THEN SubSeq(inAcc, 1, Len(inAcc) - 1)
  ELSE inAcc

\* C23: in event mode there is exactly one Tick for every millisecond bucket
\* that received an accepted quote, the final bucket included, in input
\* order, whether or not it repeats the previous Tick's bid, ask and sizes;
\* a bucket without an accepted quote emits nothing.
C23_OneTickPerBucket ==
  /\ Len(evRun.out) = Len(ClosedBuckets)
  /\ \A i \in 1..Len(evRun.out) : evRun.out[i].ts = ClosedBuckets[i].ms

\* three lines a millisecond apart, the middle one rejected: two Ticks with
\* the same bid, ask and sizes, the file closed
C23_Witness ==
  /\ pcA = "flushed" /\ nLines = 3 /\ Len(evRun.out) = 2
  /\ evRun.G.locked_crossed + evRun.G.nonpos_field = 1
  /\ same_day(evRun.out[1].ts, evRun.out[2].ts)
  /\ ms_since_midnight(evRun.out[2].ts) = ms_since_midnight(evRun.out[1].ts) + 2
  /\ evRun.out[2].bid = evRun.out[1].bid /\ evRun.out[2].ask = evRun.out[1].ask
  /\ evRun.out[2].bidSize = evRun.out[1].bidSize
  /\ evRun.out[2].askSize = evRun.out[1].askSize

\* C24: the event grid emits a row only when the mid-price changes: no row
\* of the event file has the mid of the row emitted immediately before it on
\* the same day.
C24_RowOnlyOnMidChange ==
  \A i \in 2..Len(evRun.out) :
    same_day(evRun.out[i - 1].ts, evRun.out[i].ts)
      => evRun.out[i].mid # evRun.out[i - 1].mid

\* arrival position of the first quote of qs with the highest bid, the
\* lowest ask
FirstBestBid(qs) ==
  CHOOSE j \in 1..Len(qs) :
    /\ \A k \in 1..Len(qs) : qs[k].bid <= qs[j].bid
    /\ \A k \in 1..(j - 1) : qs[k].bid < qs[j].bid
FirstBestAsk(qs) ==
  CHOOSE j \in 1..Len(qs) :
    /\ \A k \in 1..Len(qs) : qs[k].ask >= qs[j].ask
    /\ \A k \in 1..(j - 1) : qs[k].ask > qs[j].ask

\* C25: a Tick's bid is the highest bid and its ask the lowest ask among the
\* quotes accepted into its millisecond bucket, and bid_size (ask_size) is
\* the size of the first quote in arrival order with that bid (ask): a later
\* quote at the same price does not replace the size.
C25_BucketBest ==
  \A i \in 1..Len(ClosedBuckets) :
    i <= Len(evRun.out) =>
      LET qs == ClosedBuckets[i].quotes
          r == evRun.out[i]
      IN /\ r.bid = qs[FirstBestBid(qs)].bid
         /\ r.bidSize = qs[FirstBestBid(qs)].bidSize
         /\ r.ask = qs[FirstBestAsk(qs)].ask
         /\ r.askSize = qs[FirstBestAsk(qs)].askSize

\* a bucket of three accepted quotes: the second raises the bid, the third
\* repeats that bid with another size; the Tick keeps the second's size
C25_Witness ==
  /\ pcA = "flushed" /\ Len(evRun.out) = 1 /\ Len(inAcc) = 1
  /\ Len(inAcc[1].quotes) = 3
  /\ inAcc[1].quotes[1].bid < inAcc[1].quotes[2].bid
  /\ inAcc[1].quotes[3].bid = inAcc[1].quotes[2].bid
  /\ inAcc[1].quotes[3].bidSize # inAcc[1].quotes[2].bidSize
  /\ evRun.out[1].bid = inAcc[1].quotes[2].bid
  /\ evRun.out[1].bidSize = inAcc[1].quotes[2].bidSize

\* the rows of year y's writer, in the file or still in its builders
PqWritten(y) == pq.writers[y].file \o pq.writers[y].batch
\* where the k-th input row (the one with mid k) was written
PqWrittenAt(k) ==
  { <<y, i>> \in (DOMAIN pq.writers) \X (1..(MaxPqRows + 1)) :
      i <= Len(PqWritten(y)) /\ PqWritten(y)[i].mid = k }
\* the k-th input row is written once, as row r
PqWrittenOnceAs(k, r) ==
  /\ Cardinality(PqWrittenAt(k)) = 1
  /\ \A at \in PqWrittenAt(k) : PqWritten(at[1])[at[2]] = r
WinsorOn == pq.pc \in {"rows", "closed"} /\ pq.S.winsorize

\* C26 as stated: with winsorization enabled, in clip mode every row is
\* written and a finite log_return lr is replaced by
\* min(max(lr, q_lo), q_hi); in drop mode exactly the rows with lr < q_lo or
\* lr > q_hi are excluded and the others are written unchanged; rows with a
\* null log_return are always written.
C26_WinsorMinMax ==
  WinsorOn =>
    \A k \in 1..Len(pq.input) :
      LET r == pq.input[k]
          v == r.logret.v
      IN IF ~isfinite(r.logret) THEN PqWrittenOnceAs(k, r)
         ELSE IF pq.S.winsor_clip
         THEN PqWrittenOnceAs(k, [r EXCEPT !.logret =
                                  FiniteRow(Min(Max(v, pq.cut_lo), pq.cut_hi))])
         ELSE IF v < pq.cut_lo \/ v > pq.cut_hi THEN PqWrittenAt(k) = {}
         ELSE PqWrittenOnceAs(k, r)

\* C26: with winsorization enabled, in clip mode every row is written and a
\* finite log_return below q_lo is replaced by q_lo, and otherwise one above
\* q_hi by q_hi, which is min(max(lr, q_lo), q_hi) whenever q_lo <= q_hi; in
\* drop mode exactly the rows with lr < q_lo or lr > q_hi are excluded and
\* the others are written unchanged; rows with a null log_return are always
\* written.
C26_WinsorClipDrop ==
  WinsorOn =>
    \A k \in 1..Len(pq.input) :
      LET r == pq.input[k]
          v == r.logret.v
          clipped == IF v < pq.cut_lo THEN pq.cut_lo
                     ELSE IF v > pq.cut_hi THEN pq.cut_hi ELSE v
      IN IF ~isfinite(r.logret) THEN PqWrittenOnceAs(k, r)
         ELSE IF pq.S.winsor_clip
         THEN /\ PqWrittenOnceAs(k, [r EXCEPT !.logret = FiniteRow(clipped)])
              /\ pq.cut_lo <= pq.cut_hi
                   => clipped = Min(Max(v, pq.cut_lo), pq.cut_hi)
         ELSE IF v < pq.cut_lo \/ v > pq.cut_hi THEN PqWrittenAt(k) = {}
         ELSE PqWrittenOnceAs(k, r)

\* clip mode with cutoffs -1 and 1: a row below, a row above and a null row,
\* all three written and the files closed
C26_Witness ==
  /\ pq.pc = "closed" /\ pq.S.winsorize /\ pq.S.winsor_clip
  /\ pq.cut_lo < pq.cut_hi /\ Len(pq.input) = 3
  /\ isfinite(pq.input[1].logret) /\ pq.input[1].logret.v < pq.cut_lo
  /\ isfinite(pq.input[2].logret) /\ pq.input[2].logret.v > pq.cut_hi
  /\ ~isfinite(pq.input[3].logret)
  /\ \A k \in 1..3 : Cardinality(PqWrittenAt(k)) = 1

\* the k-th input row is not dropped by the winsor policy
PqKept(k) == Winsor(pq.S, pq.cut_lo, pq.cut_hi, pq.input[k]).keep
\* how many times open_year was called for year y
PqOpens(y) == Cardinality({ i \in 1..Len(pq.opens) : pq.opens[i] = y })

\* C27: every written Tick is in the writer of year_from_ts(ts); a year's
\* writer is opened when the first Tick of that year is written and never a
\* second time; at end of stream every opened writer has been closed exactly
\* once, with all its rows in the file; a year's rows keep their input
\* order.
C27_YearWriters ==
  pq.pc \in {"rows", "closed"} =>
    /\ \A k \in 1..Len(pq.input) :
         PqKept(k) =>
           /\ Cardinality(PqWrittenAt(k)) = 1
           /\ \A at \in PqWrittenAt(k) : at[1] = year_from_ts(pq.input[k].ts)
    /\ \A y \in DOMAIN pq.writers :
         /\ pq.writers[y].year = y
         /\ \E k \in 1..Len(pq.input) :
              PqKept(k) /\ year_from_ts(pq.input[k].ts) = y
         /\ PqOpens(y) = 1
         /\ \A i \in 1..Len(PqWritten(y)) :
              /\ year_from_ts(PqWritten(y)[i].ts) = y
              /\ \A j \in 1..(i - 1) : PqWritten(y)[j].mid < PqWritten(y)[i].mid
         /\ pq.writers[y].closed = (IF pq.pc = "closed" THEN 1 ELSE 0)
         /\ pq.pc = "closed" =>
              /\ pq.writers[y].batch = <<>>
              /\ pq.writers[y].total_rows = Len(pq.writers[y].file)
    /\ Len(pq.opens) = Cardinality(DOMAIN pq.writers)

\* rows of 2023, 2024 and 2023 again, none dropped: two writers were open
\* together, both are closed, the 2023 file holds rows 1 and 3 in that order
C27_Witness ==
  /\ pq.pc = "closed" /\ Len(pq.input) = 3
  /\ DOMAIN pq.writers = {2023, 2024}
  /\ pq.opens = <<2023, 2024>>
  /\ Len(pq.writers[2023].file) = 2 /\ Len(pq.writers[2024].file) = 1
  /\ pq.writers[2023].file[1].mid = 1 /\ pq.writers[2023].file[2].mid = 3
  /\ pq.writers[2023].closed = 1 /\ pq.writers[2024].closed = 1

\* the workers now processing shard i
PoolWorkingOn(i) ==
  { w \in DOMAIN pool.worker : pool.worker[w].pc = "work" /\ pool.worker[w].i = i }
PoolAllDone == \A w \in DOMAIN pool.worker : pool.worker[w].pc = "done"
PoolOnce ==
  pool.pc \in {"run", "joined", "serial"} =>
    \* no shard is taken by two workers or taken twice
    /\ \A i \in DOMAIN pool.done :
         /\ Len(pool.done[i]) + Cardinality(PoolWorkingOn(i)) <= 1
         /\ pool.idx >= pool.n + Cardinality(DOMAIN pool.worker)
              => Len(pool.done[i]) = 1
    \* a worker leaves its loop only on an index past the shards
    /\ \A w \in DOMAIN pool.worker :
         /\ pool.worker[w].pc = "done" => pool.worker[w].i >= pool.n
         /\ pool.worker[w].pc = "work" => pool.worker[w].i < pool.n
    \* the joins return with every worker out and every shard processed once
    /\ pool.pc \in {"joined", "serial"} =>
         /\ PoolAllDone
         /\ \A i \in DOMAIN pool.done : Len(pool.done[i]) = 1
    \* each earlier stage was complete when the next one started
    /\ \A k \in 1..Len(pool.log) :
         pool.log[k].running = {} /\ pool.log[k].times = {1}

\* C28: in each parallel stage, for any number of workers, every shard is
\* processed exactly once by exactly one worker; once the shared counter has
\* passed the number of shards every worker terminates; the next stage
\* starts only after all workers have been joined.
C28_PoolShardsOnce ==
  /\ []PoolOnce
  /\ (pool.pc = "run" /\ pool.idx >= pool.n) ~> PoolAllDone
  /\ (pool.pc = "run") ~> (pool.pc = "joined")

\* stage A and the tail pass both done by two workers over three shards,
\* each worker having processed a shard of the tail pass; the writer started
C28_Witness ==
  /\ pool.pc = "serial" /\ Len(pool.log) = 2 /\ pool.n = 3
  /\ DOMAIN pool.worker = {1, 2}
  /\ \A i \in 0..2 : Len(pool.done[i]) = 1
  /\ \E i, j \in 0..2 : pool.done[i] = <<1>> /\ pool.done[j] = <<2>>

\* seconds since midnight
RthSecs(h, m, s) == (h * 60 + m) * 60 + s

\* C30: a quote passes the session filter if and only if its time of day t
\* satisfies start <= t < end for the configured window
\* [rth_start, rth_end), for the default [09:30, 16:00) and for any other
\* configured start and end hours and minutes.
C30_SessionWindow ==
  rth.pc = "done" =>
    (rth.pass <=>
       /\ RthSecs(rth.S.rth_start_h, rth.S.rth_start_m, 0) <= RthSecs(rth.h, rth.m, rth.s)
       /\ RthSecs(rth.h, rth.m, rth.s) < RthSecs(rth.S.rth_end_h, rth.S.rth_end_m, 0))

RECURSIVE SumNumTrades(_)
SumNumTrades(rows) ==
  IF rows = <<>> THEN 0 ELSE Head(rows).num_trades + SumNumTrades(Tail(rows))

\* every recorded trade of p is counted in exactly one daily row, and the
\* rows are those of the trades offered since StartYear
PnlRowsCoverTrades(p) ==
  /\ p.day_trade_count = 0
  /\ p.trades = Dated(p.offered)
  /\ SumNumTrades(p.daily_rows) = Len(p.trades)
  /\ \A i \in 1..Len(p.daily_rows) :
       /\ p.daily_rows[i].num_trades >= 1
       /\ p.daily_rows[i].num_trades = Len(OnDay(p.trades, p.daily_rows[i].day))
       /\ p.daily_rows[i].net_ret_sum = SumNet(OnDay(p.trades, p.daily_rows[i].day))
       /\ p.daily_rows[i].gross_ret_sum
            = SumGross(OnDay(p.trades, p.daily_rows[i].day))
       /\ p.daily_rows[i].cumulative_net_ret
            = SumNet(UpToDay(p.trades, p.daily_rows[i].day))
  /\ \A k \in 1..Len(p.trades) :
       Cardinality({ i \in 1..Len(p.daily_rows) :
                      p.daily_rows[i].day = p.trades[k].day }) = 1

C29_Step ==
  \* FinalizeYear
  /\ (pnl.phase = "open" /\ pnl'.phase = "final") => PnlRowsCoverTrades(pnl')
  \* StartYear
  /\ pnl'.nYears # pnl.nYears =>
       /\ pnl'.trades = <<>> /\ pnl'.daily_rows = <<>>
       /\ pnl'.current_day = 0 /\ pnl'.cumulative_net = 0
       /\ pnl'.day_trade_count = 0 /\ pnl'.day_net_sum = 0
       /\ pnl'.day_gross_sum = 0

\* C29: FinalizeYear flushes the last open day, after which every recorded
\* trade of the year is counted in exactly one daily row (the rows'
\* num_trades sum to the number of recorded trades, each row has
\* num_trades >= 1); StartYear clears the trades, the daily rows, the open
\* day and the cumulative total, so a later year's rows are those of its own
\* trades alone.
C29_FinalizeAndStartYear == [][C29_Step]_vars

\* the second year finalized with three trades in two rows, after a first
\* year that was offered a trade
C29_Witness ==
  /\ pnl.phase = "final" /\ ~pnl.aborted /\ pnl.nYears = 2
  /\ pnl.nCalls = 4 /\ Len(pnl.trades) = 3 /\ Len(pnl.offered) = 3
  /\ Len(pnl.daily_rows) = 2
  /\ pnl.daily_rows[1].num_trades + pnl.daily_rows[2].num_trades = 3

(***************************************************************************)
(* Claims about the quote ages of the event builder                        *)
(***************************************************************************)
\* the price of side sd ("bid" or "ask") of a row
EvSide(row, sd) == IF sd = "bid" THEN row.bid ELSE row.ask
\* the first of the ticks (rows without a null column) that end at row n
\* and are all of row n's day with row n's price on side sd
EvSince(rows, n, sd) ==
  CHOOSE i \in 1..n :
    /\ ~rows[i].null
    /\ \A j \in i..n :
         rows[j].null \/ (/\ day_from_ts(rows[j].ts) = day_from_ts(rows[n].ts)
                          /\ EvSide(rows[j], sd) = EvSide(rows[n], sd))
    /\ \A h \in 1..(i - 1) :
         rows[h].null \/ \E j \in h..n :
           ~rows[j].null /\ (\/ day_from_ts(rows[j].ts) # day_from_ts(rows[n].ts)
                             \/ EvSide(rows[j], sd) # EvSide(rows[n], sd))

C31_Step ==
  (Len(evb'.rows) = Len(evb.rows) + 1 /\ ~evb'.rows[Len(evb'.rows)].null) =>
    LET n == Len(evb'.rows)
        row == evb'.rows[n]
        ms == ms_since_midnight(row.ts)
        newDay == ~evb.have_day \/ day_from_ts(row.ts) # evb.curr_day
    IN /\ evb'.bid_origin_ms = (IF newDay \/ row.bid # evb.last_bid_price
                                THEN ms ELSE evb.bid_origin_ms)
       /\ evb'.ask_origin_ms = (IF newDay \/ row.ask # evb.last_ask_price
                                THEN ms ELSE evb.ask_origin_ms)
       /\ evb'.last_bid_price = row.bid /\ evb'.last_ask_price = row.ask
       /\ evb'.age_bid_ms
            = ms - ms_since_midnight(evb'.rows[EvSince(evb'.rows, n, "bid")].ts)
       /\ evb'.age_ask_ms
            = ms - ms_since_midnight(evb'.rows[EvSince(evb'.rows, n, "ask")].ts)
       /\ evb'.age_bid_ms >= 0 /\ evb'.age_ask_ms >= 0
       /\ newDay => evb'.age_bid_ms = 0 /\ evb'.age_ask_ms = 0
       /\ evb'.prev_row = n =>
            /\ evb'.prev_event.age_diff_ms = evb'.age_bid_ms - evb'.age_ask_ms
            /\ newDay => evb'.prev_event.age_diff_ms = 0

\* C31: on every tick, mid-change or not, a side's origin becomes the tick's
\* millisecond exactly when the side's price differs from the last recorded
\* price of the day, and the first tick of a day installs both origins; so
\* age_bid_ms and age_ask_ms are the milliseconds since the current bid and
\* ask appeared, both are >= 0 for time-ordered ticks, and age_diff_ms =
\* age_bid_ms - age_ask_ms is 0 on the first tick of a day.
C31_QuoteAges == [][C31_Step]_vars

\* a mid-change on the third tick of a day: the bid has stood for 14 ms, the
\* ask appeared on this tick
C31_Witness ==
  /\ Len(evb.rows) = 3 /\ evb.prev_row = 3
  /\ evb.age_bid_ms = 14 /\ evb.age_ask_ms = 0
  /\ evb.prev_event.age_diff_ms = 14

(***************************************************************************)
(* Claims about last_move                                                  *)
(***************************************************************************)
\* row i of rows is a mid-change: no null column, log_return finite, not 0
EvMidChange(rows, i) ==
  ~rows[i].null /\ ~rows[i].lr_null /\ isfinite(rows[i].lr) /\ rows[i].lr # ZeroLr
\* the mid-changes before row n that are of row n's day
EvEarlier(rows, n) ==
  { i \in 1..(n - 1) : /\ EvMidChange(rows, i)
                        /\ day_from_ts(rows[i].ts) = day_from_ts(rows[n].ts) }
\* the sign of the log_return of the latest of them, 0 when there is none
EvLastMove(rows, n) ==
  IF EvEarlier(rows, n) = {} THEN 0
  ELSE LrSign(rows[SetMax(EvEarlier(rows, n))].lr)
\* the step processes one more row and that row opens a day
EvOpensDay ==
  /\ ~evb'.rows[Len(evb'.rows)].null
  /\ ~evb.have_day \/ day_from_ts(evb'.rows[Len(evb'.rows)].ts) # evb.curr_day
\* every event, pending or written, has the last_move of its row
EvLastMoveOfEvents ==
  /\ EvMidChange(evb'.rows, Len(evb'.rows)) =>
       /\ evb'.prev_row = Len(evb'.rows) /\ evb'.have_prev_event
       /\ evb'.prev_event.last_move = EvLastMove(evb'.rows, Len(evb'.rows))
  /\ \A k \in 1..Len(evb'.written) :
       evb'.written[k].last_move = EvLastMove(evb'.rows, evb'.written_from[k].e)
EvPendingUnchanged ==
  /\ evb'.last_move_sign = evb.last_move_sign
  /\ evb'.have_prev_event = evb.have_prev_event
  /\ evb'.prev_event = evb.prev_event

C32_StepAsStated ==
  Len(evb'.rows) = Len(evb.rows) + 1 =>
    /\ EvLastMoveOfEvents
    /\ ~EvMidChange(evb'.rows, Len(evb'.rows)) => EvPendingUnchanged

\* C32 as stated: an event's last_move is the sign of the log_return of the
\* most recent earlier mid-change of its day, written or dropped, 0 for the
\* first mid-change of a day; a tick that is not a mid-change changes
\* neither last_move_sign nor the pending prev_event.
C32_LastMoveAnyTick == [][C32_StepAsStated]_vars

C32_Step ==
  Len(evb'.rows) = Len(evb.rows) + 1 =>
    /\ EvLastMoveOfEvents
    /\ (~EvMidChange(evb'.rows, Len(evb'.rows)) /\ ~EvOpensDay)
         => EvPendingUnchanged
    /\ (~EvMidChange(evb'.rows, Len(evb'.rows)) /\ EvOpensDay)
         => /\ evb'.last_move_sign = 0 /\ ~evb'.have_prev_event
            /\ evb'.prev_event = evb.prev_event

\* C32: an event's last_move is the sign of the log_return of the most
\* recent earlier mid-change of its day, written or dropped, 0 for the first
\* mid-change of a day; a tick that is not a mid-change and does not open a
\* new day changes neither last_move_sign nor the pending prev_event, and
\* one that opens a new day resets last_move_sign to 0 and drops the
\* pending event.
C32_LastMove == [][C32_Step]_vars

\* a written event whose last_move is the down move of an event that was
\* dropped for its jump
C32_Witness ==
  /\ Len(evb.rows) = 3 /\ Len(evb.written) = 1
  /\ evb.events_dropped_bigmove = 1
  /\ evb.written_from[1].e = 2
  /\ evb.written[1].last_move = 0 - 1

(***************************************************************************)
(* Claims about the counters of the event builder                          *)
(***************************************************************************)
EvPending == IF evb.have_prev_event THEN 1 ELSE 0

\* C38: at every point of the event builder's run events_detected =
\* events_written + events_dropped_bigmove + events_dropped_boundary + (1 if
\* an event is pending, else 0); after the end-of-stream finish_day no event
\* is pending, and the events file holds events_written events.
C38_EventsAccounted ==
  /\ evb.events_detected = evb.events_written + evb.events_dropped_bigmove
                            + evb.events_dropped_boundary + EvPending
  /\ evb.events_written = Len(evb.written)
  /\ evb.events_detected
       = Cardinality({ i \in 1..Len(evb.rows) : EvMidChange(evb.rows, i) })
  /\ evb.pc = "done" => ~evb.have_prev_event

\* a finished run with one event of each outcome
C38_Witness ==
  /\ evb.pc = "done" /\ evb.events_detected = 3
  /\ evb.events_written = 1 /\ evb.events_dropped_bigmove = 1
  /\ evb.events_dropped_boundary = 1

(***************************************************************************)
(* Claims about rejected quotes in stage A                                 *)
(***************************************************************************)
GlCats == {"parse_fail", "nonpos_field", "nonpos_price", "locked_crossed"}
GlHourCount(G, k) == IF k \in DOMAIN G.by_hour THEN G.by_hour[k] ELSE 0
\* a quote with a field that is not positive, or locked or crossed
GlRejected(q) ==
  q.bid <= 0 \/ q.ask <= 0 \/ q.bidSize <= 0 \/ q.askSize <= 0 \/ q.ask <= q.bid
GlCatOf(q) ==
  IF q.bid <= 0 \/ q.ask <= 0 \/ q.bidSize <= 0 \/ q.askSize <= 0
  THEN "nonpos_field" ELSE "locked_crossed"
\* G1 is G with one more count, of category cat in hour h
GlOneMore(G, G1, cat, h) ==
  /\ \A c \in GlCats : G1[c] = G[c] + (IF c = cat THEN 1 ELSE 0)
  /\ \A k \in GlCats \X (0..23) :
       GlHourCount(G1, k) = GlHourCount(G, k) + (IF k = <<cat, h>> THEN 1 ELSE 0)
\* what reading the rejected quote q does to one run of the loop
GlRejectedEffect(r, r1, q) ==
  /\ GlOneMore(r.G, r1.G, GlCatOf(q), HourOf(q.ts))
  /\ ~r1.bucket.any \/ r1.bucket = r.bucket
  /\ \/ /\ r1.bucket.bestBid = r.bucket.bestBid /\ r1.bucket.bestAsk = r.bucket.bestAsk
        /\ r1.bucket.bidSz = r.bucket.bidSz /\ r1.bucket.askSz = r.bucket.askSz
        /\ r1.bucket.any = r.bucket.any /\ r1.out = r.out
     \/ /\ GlCatOf(q) = "locked_crossed" /\ q.ts # r.bucket.ms
        /\ r1.bucket = NBBOBucket_reset(q.ts)
  /\ Len(r1.out) >= Len(r.out)
  /\ SubSeq(r1.out, 1, Len(r.out)) = r.out
  /\ Len(r1.out) > Len(r.out) =>
       /\ r.bucket.any /\ q.ts # r.bucket.ms
       /\ r1.out[Len(r1.out)].ts = r.bucket.ms /\ ~r1.fillMask[Len(r1.out)]
       /\ \A i \in (Len(r.out) + 1)..(Len(r1.out) - 1) : r1.fillMask[i]
C33_Step ==
  \A t \in GlTimes(inTs) : \A q \in GlQuotes(t) :
    (GlRejected(q) /\ ReadLine(q)) =>
      /\ GlRejectedEffect(evRun, evRun', q)
      /\ GlRejectedEffect(ckRun, ckRun', q)
\* reading the rejected quote q counts it and leaves the bucket's best bid,
\* best ask and sizes and the rows written as they were
GlRejectedUntouched(r, r1, q) ==
  /\ GlOneMore(r.G, r1.G, GlCatOf(q), HourOf(q.ts))
  /\ r1.bucket.bestBid = r.bucket.bestBid /\ r1.bucket.bestAsk = r.bucket.bestAsk
  /\ r1.bucket.bidSz = r.bucket.bidSz /\ r1.bucket.askSz = r.bucket.askSz
  /\ r1.out = r.out
C33_StepAsStated ==
  \A t \in GlTimes(inTs) : \A q \in GlQuotes(t) :
    (GlRejected(q) /\ ReadLine(q)) =>
      /\ GlRejectedUntouched(evRun, evRun', q)
      /\ GlRejectedUntouched(ckRun, ckRun', q)

\* C33 as stated: a quote with a bid, ask, bid size or ask size that is not
\* strictly positive, or that is locked or crossed, never changes the
\* bucket's best bid, best ask or sizes and never causes a Tick by itself;
\* it adds one to exactly one glitch counter, nonpos_field or
\* locked_crossed, for its hour, and the loop goes on.
C33_RejectedNeverTouch == [][C33_StepAsStated]_vars
\* every tick written that is not a fill is of a millisecond with an
\* accepted quote
GlTicksOfAccepted(r) ==
  \A i \in 1..Len(r.out) :
    r.fillMask[i] \/ \E j \in 1..Len(inAcc) : inAcc[j].ms = r.out[i].ts

\* C33, amended: a quote with a bid, ask, bid size or ask size that is not
\* strictly positive changes neither the bucket nor the rows written.  A
\* locked or crossed quote of the bucket's millisecond does the same; one
\* that is the first line of a new millisecond closes the bucket as any
\* line does (the Tick of the earlier bucket, and in clock mode the fills
\* before it, are written) and leaves the empty bucket of its own
\* millisecond.  No quote of either kind enters a best bid, best ask or
\* size or makes a Tick of its own millisecond; each adds one to exactly
\* one glitch counter, nonpos_field or locked_crossed, in total and for the
\* hour of the quote, and the loop goes on.
C33_RejectedQuotes ==
  [][C33_Step]_vars /\ [](GlTicksOfAccepted(evRun) /\ GlTicksOfAccepted(ckRun))

\* a quote accepted at 09:59:59.997, a crossed or locked quote in the next
\* hour that closes its bucket, and a quote with a zero field
C33_Witness ==
  /\ nLines = 3 /\ Len(evRun.out) = 1 /\ ~evRun.bucket.any
  /\ evRun.G.locked_crossed = 1 /\ evRun.G.nonpos_field = 1
  /\ GlHourCount(evRun.G, <<"locked_crossed", 10>>) = 1
  /\ GlHourCount(evRun.G, <<"nonpos_field", 10>>) = 1

(***************************************************************************)
(* Claims about the side of Legacy trades                                  *)
(***************************************************************************)
\* the sign of a rational
RatSign(r) == IF RatLt(RatZero, r) THEN 1 ELSE IF RatLt(r, RatZero) THEN 0 - 1 ELSE 0

\* C37: in Legacy mode every emitted trade has side = +1 and a positive
\* direction score, and an event whose direction score is zero or negative
\* is never traded; the expected edge of an event of good data has the
\* sign of its direction score.
C37_LegacyLongOnly ==
  /\ bt.cfg.edge_mode = "Legacy" =>
       \A i \in 1..Len(bt.trades) :
         /\ bt.trades[i].side = 1
         /\ RatLt(RatZero, bt.trades[i].direction_score)
         /\ RatLt(RatZero, bt.trades[i].expected_edge_ret)
  /\ (bt.cfg.edge_mode = "Legacy" /\ bt.calls > 0 /\ bt.last.has_next
        /\ LastGoodData /\ RatLe(LastD, RatZero)) => ~bt.last.traded
  /\ (bt.calls > 0 /\ LastGoodData) => RatSign(LastEE) = RatSign(LastD)

\* Legacy mode: an event of positive score was traded long, then events of
\* negative and of zero score were offered and not traded
C37_Witness ==
  /\ bt.cfg.edge_mode = "Legacy" /\ bt.cfg.min_abs_direction_score = RatZero
  /\ bt.cfg.max_mean_wait_ms = 0
  /\ Len(bt.trades) = 1 /\ bt.trades[1].side = 1
  /\ bt.calls = 2 /\ bt.last.has_next /\ LastGoodData
  /\ RatLt(LastD, RatZero) /\ ~bt.last.traded

(***************************************************************************)
(* Claims about the wait gate and empty cells                              *)
(***************************************************************************)
\* the last ProcessEvent call had a same-day next event, good data and an
\* entry event in an empty cell, under a configuration with the wait gate on
LastEmptyCellWaitOn ==
  /\ bt.calls > 0 /\ bt.cfg.max_mean_wait_ms > 0
  /\ bt.last.has_next /\ LastGoodData
  /\ hist.cells[LastCell].n = 0

\* C36: with max_mean_wait_ms > 0 an event whose cell is empty is never
\* skipped by the wait gate: it is traded unless the magnitude gate or the
\* edge-mode gate skips it, the loaded model answering NaN for the cell
\* while the model file carries 2 x global_mean_tau_ms for it.
C36_WaitGateEmptyCell ==
  LastEmptyCellWaitOn =>
    /\ RatIsNaN(mean_tau_ms(hist, LastCell))
    /\ WaitGate(bt.cfg, hist, LastCell)
    /\ BtJson.cells[LastCell].n = 0
    /\ BtJson.cells[LastCell].mean_tau_ms = BtFallback
    /\ LastD = RatZero
    /\ bt.last.traded <=>
         /\ bt.cfg.min_abs_direction_score = RatZero
         /\ \/ bt.cfg.edge_mode = "CostTradeAll"
            \/ bt.cfg.edge_mode = "CostWithGate" /\ bt.cfg.min_expected_edge_bps = 0

\* the wait gate at 20 ms, the model file giving the empty cell a mean of
\* 44 ms, and the event of that cell traded
C36_Witness ==
  /\ LastEmptyCellWaitOn /\ bt.cfg.max_mean_wait_ms = 20
  /\ BtJson.cells[LastCell].mean_tau_ms = Rat(44, 1)
  /\ RatLt(RatOfInt(bt.cfg.max_mean_wait_ms), BtFallback)
  /\ bt.last.traded /\ LastTrade.direction_score = RatZero

(***************************************************************************)
(* Claims about the two ProcessEvent of the source                         *)
(***************************************************************************)
\* the configuration as the older ProcessEvent holds it
LastCfgOld == [bt.cfg EXCEPT !.edge_mode = EdgeModeInt(@)]
LastNew ==
  ProcessEvent(bt.cfg, hist, bt.last.ev, bt.last.has_next, bt.last.next_event)
LastOld ==
  ProcessEventOld(LastCfgOld, hist, bt.last.ev, bt.last.has_next, bt.last.next_event)

\* C34: for every pair of events and every configuration with edge_mode in
\* {0, 1, 2} the ProcessEvent with the enum switch and the older one with
\* the integer if/else take the same decision and hand over the same
\* TradeRecord; with min_abs_direction_score = 0 neither skips an event at
\* the magnitude gate.
C34_SameDecision ==
  bt.calls > 0 =>
    /\ LastNew = LastOld
    /\ bt.last.traded = LastOld.traded
    /\ bt.last.traded => LastTrade = LastOld.trade
    /\ MagnitudeGate(bt.cfg, LastD) = MagnitudeGateOld(LastCfgOld, LastD)
    /\ ~RatLt(RatZero, bt.cfg.min_abs_direction_score)
         => MagnitudeGate(bt.cfg, LastD) /\ MagnitudeGateOld(LastCfgOld, LastD)

\* CostTradeAll with a margin set and a negative magnitude threshold: an
\* event whose edge is below the gate's bound is traded by both
C34_Witness ==
  /\ bt.calls > 0 /\ bt.cfg.edge_mode = "CostTradeAll"
  /\ bt.cfg.min_expected_edge_bps = 100
  /\ bt.cfg.min_abs_direction_score = Rat(0 - 1, 2)
  /\ bt.last.traded /\ LastOld.traded /\ LastTrade = LastOld.trade
  /\ RatLt(RatAbs(LastEE), LastGateBound)

(***************************************************************************)
(* Claims about trades and the labels of the events file                   *)
(***************************************************************************)
\* the entry event of the last ProcessEvent call, as the builder wrote it,
\* and whether the next event of the file is the mid-change that labeled it
LastEntry == evb.written[bt.calls]
LastExitIsLabel == evb.written_from[bt.calls + 1].e = evb.written_from[bt.calls].n
LastExitAsLabeled ==
  /\ LastTrade.mid_out = 100 * LastEntry.mid_next
  /\ ms_since_midnight(LastTrade.ts_out) - ms_since_midnight(LastTrade.ts_in)
       = LastEntry.tau_ms
  /\ RatSign(LastTrade.gross_ret) = LastTrade.side * LastEntry.y

\* Within these bounds the builder's file has one row group or none and
\* the constructor of the stream throws on it, so RunForYear makes no trade
\* from a file the builder wrote; a trade needs a file of ten row groups,
\* more than nine million events.  The two statements below are about the
\* trades of such a file and are decided by no state of SpecFile.
\* for every trade from an events file of the builder, mid_out =
\* ev.mid_next, ms(ts_out) - ms(ts_in) = ev.tau_ms and the sign of gross_ret
\* is side * ev.y
ExitIsOwnLabel ==
  (bt.calls > 0 /\ bt.last.traded) => LastExitAsLabeled

\* the same for the trades whose next event of the file is the mid-change
\* that labeled the entry event; when a mid-change between the two was
\* dropped, the exit is the next event of the file and ts_out is later
\* than the label's time
ExitIsLabelIfAdjacent ==
  (bt.calls > 0 /\ bt.last.traded) =>
    /\ bt.last.ev = FileEvent(LastEntry)
    /\ LastTrade.mid_out = 100 * evb.written[bt.calls + 1].mid
    /\ LastTrade.ts_out = evb.written[bt.calls + 1].ts
    /\ LastExitIsLabel => LastExitAsLabeled
    /\ ~LastExitIsLabel =>
         /\ evb.written_from[bt.calls + 1].e > evb.written_from[bt.calls].n
         /\ ms_since_midnight(LastTrade.ts_out) - ms_since_midnight(LastTrade.ts_in)
              > LastEntry.tau_ms

\* RunForYear on a file of the builder ends in the constructor of its
\* stream: the year is started, no event is read, no trade is made and the
\* year is not finalized
BuilderFileThrows ==
  bt.pc # "new" =>
    /\ bt.pc = "threw" /\ bt.events = 0 /\ bt.calls = 0 /\ bt.trades = <<>>
    /\ bt.row_groups = EventWriter_row_groups(Len(evb.written))
    /\ pnl.trades = <<>> /\ pnl.daily_rows = <<>>

(***************************************************************************)
(* Claims about the two HistogramModel lookups                             *)
(***************************************************************************)
\* C39: with the default bin spec the model with configurable bins returns
\* the same imbalance, spread, age and last-move bin as the hard-coded
\* model for every tick state, hence the same cell index
\* k = ((b_imb*3 + b_spr)*5 + b_age)*3 + b_last, which lies in [0, 270).
C39_SameCell ==
  lookup.pc = "done" =>
    /\ imb_bin_cfg(DefaultBins.imb, lookup.x.imbalance) = imb_bin(lookup.x.imbalance)
    /\ spr_bin_cfg(DefaultBins.spr, lookup.x.spread) = spr_bin(lookup.x.spread)
    /\ age_bin_cfg(DefaultBins.age, lookup.x.age_diff_ms) = age_bin(lookup.x.age_diff_ms)
    /\ last_bin_cfg(DefaultBins.last, lookup.x.last_move) = last_bin(lookup.x.last_move)
    /\ lookup.k_cfg = lookup.k
    /\ lookup.k = ((imb_bin(lookup.x.imbalance) * 3 + spr_bin(lookup.x.spread)) * 5
                     + age_bin(lookup.x.age_diff_ms)) * 3 + last_bin(lookup.x.last_move)
    /\ lookup.k >= 0 /\ lookup.k < 270

\* the last cell: imbalance above 0.3, three ticks of spread, the bid more
\* than 200 ms older than the ask, after an up move
C39_Witness ==
  /\ lookup.pc = "done" /\ lookup.k = 269 /\ lookup.k_cfg = 269
  /\ lookup.x.age_diff_ms = 201 /\ lookup.x.spread = 5

(***************************************************************************)
(* The denoiser's report counters                                          *)
(***************************************************************************)
\* the positions of the rows read so far that carry day d
DenRowsOfDay(d) == { i \in 1..Len(den.rows) : den.rows[i].day = d }

\* the rows read so far whose ts and mid are both present
DenCounted == { i \in 1..Len(den.rows) : ~den.rows[i].null }

\* the summary's sums: in_rows = out_rows + removed, removed = by_delta + by_level
DenSumsAgree ==
  /\ den.total_rows_in = den.total_rows_out + den.total_removed
  /\ den.total_removed = den.removed_by_delta + den.removed_by_level

\* C40: after any input stream in_rows = out_rows + removed and
\* removed = removed_by_delta + removed_by_level, where in_rows is the number
\* of rows of the input; each row is counted once, in kept_per_day of its day
\* when it was kept and in removed_per_day of its day when it was dropped; and
\* no more than MAX_EXAMPLES spike examples are held.
C40_CountersAccountRows ==
  /\ DenSumsAgree
  /\ den.total_rows_in = Len(den.rows)
  /\ \A d \in 1..MaxDenDay :
       /\ den.kept_per_day[d] =
            Cardinality({ i \in DenRowsOfDay(d) : den.rows[i].keep })
       /\ den.removed_per_day[d] =
            Cardinality({ i \in DenRowsOfDay(d) : ~den.rows[i].keep })
  /\ Len(den.delta_examples) <= MAX_EXAMPLES

\* what the counters do account for: the rows with ts and mid present
DenCountersOfCounted ==
  /\ DenSumsAgree
  /\ den.total_rows_in = Cardinality(DenCounted)
  /\ den.total_rows_out = Cardinality({ i \in DenCounted : den.rows[i].keep })
  /\ \A d \in 1..MaxDenDay :
       /\ den.kept_per_day[d] =
            Cardinality({ i \in DenRowsOfDay(d) \cap DenCounted : den.rows[i].keep })
       /\ den.removed_per_day[d] =
            Cardinality({ i \in DenRowsOfDay(d) \cap DenCounted : ~den.rows[i].keep })
  /\ Len(den.delta_examples) = Min(den.removed_by_delta, MAX_EXAMPLES)

\* a file with a dropped null row beside a kept row and a removed spike
DenNullRowSeen ==
  /\ \E i \in 1..Len(den.rows) : den.rows[i].null
  /\ den.total_rows_out >= 1 /\ den.removed_by_delta >= 1
  /\ den.total_rows_in < Len(den.rows)

====
